---- MODULE Spec2Model ----
(***************************************************************************)
(* Flow ledger of kubeintel (src/src/telemetry_api.py, TelemetryCollector): *)
(* the active-flow table, the two bounded completed-flow deques, the trace  *)
(* archive and the span synthesis of _create_mock_spans; and the cost model *)
(* over its flows (src/src/cost_visualizer.py, CostVisualizer).             *)
(*                                                                          *)
(* Time is an integer count of half-milliseconds since an arbitrary epoch.  *)
(* A Python value that may be None is a sequence of length 0 or 1.          *)
(***************************************************************************)
EXTENDS Integers, Sequences, FiniteSets, TLC

VARIABLES
    active_flows,    \* self.active_flows: flow id -> flow record
    agent_flows,     \* self.agent_flows: deque(maxlen=agent_flows_limit)
    monitor_flows,   \* self.monitor_flows: deque(maxlen=monitor_flows_limit)
    traces,          \* self.traces: deque(maxlen=traces_limit)
    traces_enabled,  \* self.traces_enabled (and self.metrics_client is set)
    now,             \* the value datetime.utcnow() returns
    nticks,          \* how often the clock has advanced
    nstarts,         \* how many start_* calls were made
    ret,             \* what the last call returned
    cost_flows,      \* the flows handed to CostVisualizer._calculate_flow_costs
    monitor,         \* BackgroundMonitor: where its loop stands, analysis_cycles
    requests         \* the analyze_cluster calls: where each stands, its flow_id

vars == <<active_flows, agent_flows, monitor_flows, traces, traces_enabled,
          now, nticks, nstarts, ret, cost_flows, monitor, requests>>

(* the callers of the ledger *)
drivers == <<monitor, requests>>

ledger == <<active_flows, agent_flows, monitor_flows, traces>>

----------------------------------------------------------------------------
(* Bounds of the model *)

MaxStarts == 3
MaxFlowTicks == 2
MaxTokenUpdates == 2
MaxToolCalls == 1

(* The capacities __init__ reads from the environment, here set to 2, 1, 2 *)
agent_flows_limit == 2
monitor_flows_limit == 1
traces_limit == 2

----------------------------------------------------------------------------
(* Python values *)

None == <<>>
Some(x) == <<x>>
Val(o) == o[1]

Max(a, b) == IF a >= b THEN a ELSE b
Min(a, b) == IF a <= b THEN a ELSE b

(* s[-1] and s[:-1] *)
Last(s) == s[Len(s)]
Front(s) == SubSeq(s, 1, Len(s) - 1)

(* s[-n:], the last n elements of s *)
LastN(s, n) == IF Len(s) <= n THEN s ELSE SubSeq(s, Len(s) - n + 1, Len(s))

(* a plain list in place of the deque: append never drops anything *)
ListAppend(q, x, cap) == Append(q, x)

(* deque(maxlen=cap).append(x): a full deque drops its leftmost element *)
DequeAppend(q, x, cap) ==
    IF cap = 0 THEN q
    ELSE IF Len(q) >= cap THEN Append(Tail(q), x)
    ELSE Append(q, x)

(* deque(iterable, maxlen=cap): keeps the last cap elements *)
DequeFrom(s, cap) ==
    IF Len(s) <= cap THEN s ELSE SubSeq(s, Len(s) - cap + 1, Len(s))

----------------------------------------------------------------------------
(* Clock and timestamps *)

UnitsPerMs == 2
UnitsPerSecond == 1000 * UnitsPerMs
UnitsPerHour == 3600 * UnitsPerSecond

Ms(n) == n * UnitsPerMs

(* The clock advances by 1.001 s or by an hour and half a millisecond. *)
TickSteps == {Ms(1001), UnitsPerHour + 1}

(* datetime.isoformat(): the text "....:SS[.ffffff]", kept as the pair       *)
(* <<whole seconds, fraction of the second>>; texts of one format compare    *)
(* as these pairs do.                                                        *)
IsoFormat(t) == <<t \div UnitsPerSecond, t % UnitsPerSecond>>

(* datetime.fromisoformat(s.replace('Z', '+00:00')) *)
FromIso(s) == s[1] * UnitsPerSecond + s[2]

(* a > b on two isoformat texts *)
IsoGreater(a, b) == a[1] > b[1] \/ (a[1] = b[1] /\ a[2] > b[2])

(* int(datetime.utcnow().timestamp()) *)
EpochSeconds(t) == t \div UnitsPerSecond

(* Whole-millisecond differences n, among those the clock of this model can  *)
(* produce, for which the double timedelta(milliseconds=n).total_seconds()   *)
(* * 1000 is just below n (CPython: 1.001 * 1000 = 1000.9999999999999).      *)
FloatShortMs == {1001, 2002, 4004}

(* int((end_time - start_time).total_seconds() * 1000) *)
DurationMs(start_time, end_time) ==
    LET d == end_time - start_time
        whole == d \div UnitsPerMs
    IN  IF d % UnitsPerMs = 0 /\ whole \in FloatShortMs THEN whole - 1 ELSE whole

----------------------------------------------------------------------------
(* Arguments the callers choose *)

AgentId1 == <<"analysis", 0, 1>>
AgentId2 == <<"analysis", 0, 2>>
AgentIds == {AgentId1, AgentId2}
UnknownId == <<"nonexistent", 0, 0>>

(* error texts, as the sequence of their characters: "boom", "op timeout"   *)
(* and "timed out"                                                           *)
ErrBoom == <<"b", "o", "o", "m">>
ErrTimeout == <<"o", "p", " ", "t", "i", "m", "e", "o", "u", "t">>
ErrTimedOut == <<"t", "i", "m", "e", "d", " ", "o", "u", "t">>

FinalTokens == [input |-> 5000, output |-> 200]
ToolTimed == [name |-> "execute_bash", timestamp |-> None, duration |-> Some(2000)]
ToolUntimed == [name |-> "fs_read", timestamp |-> None, duration |-> None]

(* (success, error, tokens, tools) of an end_* call *)
EndOk == [success |-> TRUE, error |-> None, tokens |-> Some(FinalTokens), tools |-> Some(<<ToolTimed>>)]
EndTimeout == [success |-> FALSE, error |-> Some(ErrTimeout), tokens |-> None, tools |-> None]
EndArgs ==
    { EndOk,
      EndTimeout,
      [success |-> TRUE,  error |-> None, tokens |-> None, tools |-> None],
      [success |-> TRUE,  error |-> Some(ErrBoom), tokens |-> Some(FinalTokens), tools |-> Some(<<>>)],
      [success |-> FALSE, error |-> Some(ErrTimedOut), tokens |-> None, tools |-> Some(<<ToolTimed, ToolUntimed>>)] }

TokenDeltas == {<<100, 0>>, <<0, 50>>}
ToolDetails == {None, Some([duration |-> 800])}
ClearHours == {0, 1}

(* What Trace(name=..., metadata=...) does when tracing is enabled: it       *)
(* raises, returns an object with an id, or returns an object without one.   *)
TraceOutcomes == {"raises", "id", "no_id"}

----------------------------------------------------------------------------
(* start_agent_flow / start_monitor_flow *)

(* the start without its fallbacks: no id when the trace object has none    *)
(* or when its creation raises                                               *)
StartTraceIdNoFallback(flow_id, outcome) ==
    IF traces_enabled
    THEN CASE outcome = "id" -> <<"strands", <<"uuid", nstarts + 1, 0>>>>
           [] OTHER -> None
    ELSE <<"mock-trace", flow_id>>

(* flow_data['trace_id'] as set by lines 136-161 and 281-306 *)
StartTraceId(flow_id, outcome) ==
    IF traces_enabled
    THEN CASE outcome = "id" -> <<"strands", <<"uuid", nstarts + 1, 0>>>>
           [] outcome = "no_id" -> <<"trace", flow_id>>
           [] OTHER -> <<"mock-trace", flow_id>>
    ELSE <<"mock-trace", flow_id>>

(* 'trace' in flow_data after the start *)
StartHasTrace(outcome) == traces_enabled /\ outcome \in {"id", "no_id"}

NewFlow(flow_id, type, cycle, outcome) ==
    [ id |-> flow_id,
      type |-> type,
      status |-> "running",
      startTime |-> IsoFormat(now),
      endTime |-> None,
      duration |-> None,
      cycle |-> cycle,
      tools |-> <<>>,
      tokens |-> [input |-> 0, output |-> 0],
      error |-> None,
      trace_id |-> StartTraceId(flow_id, outcome),
      trace |-> StartHasTrace(outcome) ]

(* {} *)
EmptyTable == [f \in {} |-> f]

(* self.active_flows.setdefault(flow_id, flow_data): an active entry is kept *)
PutActiveIfAbsent(flow_id, flow_data) ==
    [f \in (DOMAIN active_flows) \cup {flow_id} |->
        IF f \in DOMAIN active_flows THEN active_flows[f] ELSE flow_data]

(* self.active_flows[flow_id] = flow_data *)
PutActive(flow_id, flow_data) ==
    [f \in (DOMAIN active_flows) \cup {flow_id} |->
        IF f = flow_id THEN flow_data ELSE active_flows[f]]

(* the end without its del: the flow stays in active_flows *)
KeepActive(flow_id) == active_flows

(* the end emptying the table: self.active_flows.clear() *)
ClearActive(flow_id) == EmptyTable

(* del self.active_flows[flow_id] *)
DelActive(flow_id) ==
    [f \in (DOMAIN active_flows) \ {flow_id} |-> active_flows[f]]

start_agent_flow(flow_id, outcome) ==
    /\ LET flow_data == NewFlow(flow_id, "agent_analysis", 0, outcome)
       IN  /\ active_flows' = PutActive(flow_id, flow_data)
           /\ ret' = Some(flow_data)
    /\ nstarts' = nstarts + 1
    /\ UNCHANGED <<agent_flows, monitor_flows, traces, traces_enabled, cost_flows, now, nticks>>

(* f"monitor-cycle-{cycle}-{int(datetime.utcnow().timestamp())}" *)
MonitorFlowId(cycle) == <<"monitor-cycle", cycle, EpochSeconds(now)>>

start_monitor_flow(cycle, outcome) ==
    /\ LET flow_id == MonitorFlowId(cycle)
           flow_data == NewFlow(flow_id, "background_monitor", cycle, outcome)
       IN  /\ active_flows' = PutActive(flow_id, flow_data)
           /\ ret' = Some(flow_data)
    /\ nstarts' = nstarts + 1
    /\ UNCHANGED <<agent_flows, monitor_flows, traces, traces_enabled, cost_flows, now, nticks>>

----------------------------------------------------------------------------
(* _create_mock_spans *)

Span(name, tool_name, start_time, end_time, duration, status) ==
    [ name |-> name,
      tool_name |-> tool_name,
      start_time |-> IsoFormat(start_time),
      end_time |-> IsoFormat(end_time),
      duration |-> duration,
      status |-> status ]

(* tool.get('duration', 1000) *)
ToolDuration(tool) == IF tool.duration = None THEN 1000 ELSE Val(tool.duration)

(* the loop of lines 447-465: one span per tool, each starting where the     *)
(* previous one ended                                                         *)
RECURSIVE ToolSpans(_, _)
ToolSpans(tools, current_time) ==
    IF tools = <<>> THEN <<>>
    ELSE LET tool == Head(tools)
             tool_end == current_time + Ms(ToolDuration(tool))
         IN  <<Span("tool_execution", tool.name, current_time, tool_end,
                    ToolDuration(tool), "success")>>
             \o ToolSpans(Tail(tools), tool_end)

(* current_time after the loop *)
RECURSIVE ToolsEnd(_, _)
ToolsEnd(tools, current_time) ==
    IF tools = <<>> THEN current_time
    ELSE ToolsEnd(Tail(tools), current_time + Ms(ToolDuration(Head(tools))))

(* the llm span without its floor: flow_data.get('duration', 10000) - 2000 *)
LlmDurationUnfloored(duration) == duration - 2000

(* max(flow_data.get('duration', 10000) - 2000, 5000) *)
LlmDuration(duration) == Max(duration - 2000, 5000)

(* the completion span given its nominal 100 ms instead of the flow's end *)
CompletionEndNominal(flow_data, current_time) == current_time + Ms(100)

(* the end_time of the completion span: the flow's endTime *)
CompletionEnd(flow_data, current_time) == FromIso(Val(flow_data.endTime))

create_mock_spans(flow_data, tools) ==
    LET start_time == FromIso(flow_data.startTime)
        init_end == start_time + Ms(500)
        llm_duration == LlmDuration(Val(flow_data.duration))
        llm_end == init_end + Ms(llm_duration)
        tool_list == IF tools = None THEN <<>> ELSE Val(tools)
        tools_end == ToolsEnd(tool_list, llm_end)
        processing_end == tools_end + Ms(300)
    IN  <<Span("initialization", "", start_time, init_end, 500, "success"),
          Span("llm_execution", "", init_end, llm_end, llm_duration, "success")>>
        \o ToolSpans(tool_list, llm_end)
        \o <<Span("response_processing", "", tools_end, processing_end, 300, "success"),
             Span("completion", "", processing_end,
                  CompletionEnd(flow_data, processing_end), 100, flow_data.status)>>

----------------------------------------------------------------------------
(* end_agent_flow / end_monitor_flow *)

(* 'completed' if success else 'error' *)
AgentEndStatus(success, error) == IF success THEN "completed" ELSE "error"

(* sub in text *)
Contains(text, sub) ==
    \E i \in 0..(Len(text) - Len(sub)) : SubSeq(text, i + 1, i + Len(sub)) = sub

TimeoutText == <<"t", "i", "m", "e", "o", "u", "t">>

(* 'timeout' in (error or '') *)
HasTimeout(error) == error # None /\ Contains(Val(error), TimeoutText)

(* the status of end_monitor_flow without its timeout case *)
MonitorEndStatusPlain(success, error) == IF success THEN "completed" ELSE "error"

(* 'completed' if success else ('timeout' if 'timeout' in (error or '') else 'error') *)
MonitorEndStatus(success, error) ==
    IF success THEN "completed"
    ELSE IF HasTimeout(error) THEN "timeout" ELSE "error"

(* tokens or {'input': 0, 'output': 0} *)
TokensOrZero(tokens) ==
    IF tokens = None THEN [input |-> 0, output |-> 0] ELSE Val(tokens)

(* tools or [] *)
ToolsOrEmpty(tools) == IF tools = None THEN <<>> ELSE Val(tools)

(* the update adding the supplied tokens and tools to the accumulated ones *)
EndedFlowMerging(flow_data, status, a) ==
    [flow_data EXCEPT
        !.status = status,
        !.endTime = Some(IsoFormat(now)),
        !.duration = Some(DurationMs(FromIso(flow_data.startTime), now)),
        !.tokens = [input |-> @.input + TokensOrZero(a.tokens).input,
                    output |-> @.output + TokensOrZero(a.tokens).output],
        !.tools = @ \o ToolsOrEmpty(a.tools),
        !.error = a.error,
        !.trace = FALSE]

(* the update keeping the accumulated tokens and tools when none are given *)
EndedFlowKeeping(flow_data, status, a) ==
    [flow_data EXCEPT
        !.status = status,
        !.endTime = Some(IsoFormat(now)),
        !.duration = Some(DurationMs(FromIso(flow_data.startTime), now)),
        !.tokens = IF a.tokens = None THEN @ ELSE Val(a.tokens),
        !.tools = IF a.tools = None THEN @ ELSE Val(a.tools),
        !.error = a.error,
        !.trace = FALSE]

(* flow_data.update({...}) of lines 178-185 and 324-332, then del flow_data['trace'] *)
EndedFlow(flow_data, status, a) ==
    [flow_data EXCEPT
        !.status = status,
        !.endTime = Some(IsoFormat(now)),
        !.duration = Some(DurationMs(FromIso(flow_data.startTime), now)),
        !.tokens = TokensOrZero(a.tokens),
        !.tools = ToolsOrEmpty(a.tools),
        !.error = a.error,
        !.trace = FALSE]

(* the record appended to self.traces at lines 234-245 and 381-392 *)
TraceRecord(flow_id, type, ended, a) ==
    [ trace_id |-> ended.trace_id,
      flow_id |-> flow_id,
      type |-> type,
      status |-> IF a.success THEN "success" ELSE "error",
      startTime |-> ended.startTime,
      endTime |-> Val(ended.endTime),
      duration |-> Val(ended.duration),
      spans |-> create_mock_spans(ended, a.tools) ]

(* the record appended only when Strands tracing is enabled *)
ArchiveTraceIfEnabled(trace) ==
    IF traces_enabled /\ trace.trace_id # None
    THEN DequeAppend(traces, trace, traces_limit) ELSE traces

(* lines 232-245 and 379-392: is_strands_trace is False (nothing sets        *)
(* 'strands_trace_active'), so trace_created stays False and the record is   *)
(* appended whenever flow_data.get('trace_id') is set                        *)
ArchiveTrace(trace) ==
    IF trace.trace_id # None THEN DequeAppend(traces, trace, traces_limit) ELSE traces

(* the not-found end forgetting the completed flows before it returns *)
EndUnknownForgets ==
    /\ ret' = None
    /\ agent_flows' = <<>>
    /\ UNCHANGED <<active_flows, monitor_flows, traces>>

(* if flow_id not in self.active_flows: return None *)
EndUnknown ==
    /\ ret' = None
    /\ UNCHANGED <<active_flows, agent_flows, monitor_flows, traces>>

end_agent_flow(flow_id, a) ==
    /\ IF flow_id \notin DOMAIN active_flows
       THEN EndUnknown
       ELSE LET ended == EndedFlow(active_flows[flow_id],
                                   AgentEndStatus(a.success, a.error), a)
            IN  /\ active_flows' = DelActive(flow_id)
                /\ monitor_flows' = monitor_flows
                /\ ret' = Some(ended)
                /\ agent_flows' = DequeAppend(agent_flows, ended, agent_flows_limit)
                /\ traces' = ArchiveTrace(TraceRecord(flow_id, "agent_analysis", ended, a))
    /\ UNCHANGED <<traces_enabled, cost_flows, now, nticks, nstarts>>

end_monitor_flow(flow_id, a) ==
    /\ IF flow_id \notin DOMAIN active_flows
       THEN EndUnknown
       ELSE LET ended == EndedFlow(active_flows[flow_id],
                                   MonitorEndStatus(a.success, a.error), a)
            IN  /\ active_flows' = DelActive(flow_id)
                /\ agent_flows' = agent_flows
                /\ ret' = Some(ended)
                /\ monitor_flows' = DequeAppend(monitor_flows, ended, monitor_flows_limit)
                /\ traces' = ArchiveTrace(TraceRecord(flow_id, "background_monitor", ended, a))
    /\ UNCHANGED <<traces_enabled, cost_flows, now, nticks, nstarts>>

----------------------------------------------------------------------------
(* add_tool_call / update_tokens / clear_old_flows *)

(* the tool_call record of lines 643-647: details.get('duration', 0) if details else 0 *)
ToolCall(tool_name, details) ==
    [ name |-> tool_name,
      timestamp |-> Some(IsoFormat(now)),
      duration |-> IF details = None THEN Some(0) ELSE Some(Val(details).duration) ]

(* self.active_flows[flow_id]['tools'].append(tool_call) *)
WithToolCall(flow_data, tool_call) ==
    [flow_data EXCEPT !.tools = Append(@, tool_call)]

add_tool_call(flow_id, tool_name, details) ==
    /\ IF flow_id \in DOMAIN active_flows
       THEN active_flows' = [active_flows EXCEPT
                ![flow_id] = WithToolCall(@, ToolCall(tool_name, details))]
       ELSE active_flows' = active_flows
    /\ ret' = None
    /\ UNCHANGED <<agent_flows, monitor_flows, traces, traces_enabled, cost_flows, now, nticks, nstarts>>

(* the counters set to the two numbers instead of raised by them *)
WithTokensReplacing(flow_data, input_tokens, output_tokens) ==
    [flow_data EXCEPT !.tokens = [input |-> input_tokens, output |-> output_tokens]]

(* tokens['input'] += input_tokens; tokens['output'] += output_tokens *)
WithTokens(flow_data, input_tokens, output_tokens) ==
    [flow_data EXCEPT !.tokens = [input |-> @.input + input_tokens,
                                  output |-> @.output + output_tokens]]

(* the update reaching the completed records of an id that is not active *)
update_tokens_anywhere(flow_id, input_tokens, output_tokens) ==
    /\ IF flow_id \in DOMAIN active_flows
       THEN /\ active_flows' = [active_flows EXCEPT
                    ![flow_id] = WithTokens(@, input_tokens, output_tokens)]
            /\ agent_flows' = agent_flows
       ELSE /\ active_flows' = active_flows
            /\ agent_flows' = [i \in 1..Len(agent_flows) |->
                    IF agent_flows[i].id = flow_id
                    THEN WithTokens(agent_flows[i], input_tokens, output_tokens)
                    ELSE agent_flows[i]]
    /\ ret' = None
    /\ UNCHANGED <<monitor_flows, traces, traces_enabled, cost_flows, now, nticks, nstarts>>

update_tokens(flow_id, input_tokens, output_tokens) ==
    /\ IF flow_id \in DOMAIN active_flows
       THEN active_flows' = [active_flows EXCEPT
                ![flow_id] = WithTokens(@, input_tokens, output_tokens)]
       ELSE active_flows' = active_flows
    /\ ret' = None
    /\ UNCHANGED <<agent_flows, monitor_flows, traces, traces_enabled, cost_flows, now, nticks, nstarts>>

(* (datetime.utcnow() - timedelta(hours=hours)).isoformat() *)
CutoffIso(hours) == IsoFormat(now - hours * UnitsPerHour)

(* [f for f in flows if f['startTime'] > cutoff_iso] *)
RECURSIVE NewerThan(_, _)
NewerThan(flows, cutoff_iso) ==
    IF flows = <<>> THEN <<>>
    ELSE IF IsoGreater(Head(flows).startTime, cutoff_iso)
         THEN <<Head(flows)>> \o NewerThan(Tail(flows), cutoff_iso)
         ELSE NewerThan(Tail(flows), cutoff_iso)

(* clear_old_flows sweeping the active table as well *)
clear_old_flows_sweeping(hours) ==
    /\ agent_flows' = DequeFrom(NewerThan(agent_flows, CutoffIso(hours)), agent_flows_limit)
    /\ monitor_flows' = DequeFrom(NewerThan(monitor_flows, CutoffIso(hours)), monitor_flows_limit)
    /\ active_flows' = [f \in {g \in DOMAIN active_flows :
                                  IsoGreater(active_flows[g].startTime, CutoffIso(hours))}
                          |-> active_flows[f]]
    /\ ret' = None
    /\ UNCHANGED <<traces, traces_enabled, cost_flows, now, nticks, nstarts>>

clear_old_flows(hours) ==
    /\ agent_flows' = DequeFrom(NewerThan(agent_flows, CutoffIso(hours)), agent_flows_limit)
    /\ monitor_flows' = DequeFrom(NewerThan(monitor_flows, CutoffIso(hours)), monitor_flows_limit)
    /\ ret' = None
    /\ UNCHANGED <<active_flows, traces, traces_enabled, cost_flows, now, nticks, nstarts>>

----------------------------------------------------------------------------
(* get_flow_metrics *)

(* the count that forgets the timeout status *)
RECURSIVE CountIfNoTimeout(_, _)
CountIfNoTimeout(flows, statuses) ==
    IF flows = <<>> THEN 0
    ELSE (IF Head(flows).status \in statuses \ {"timeout"} THEN 1 ELSE 0)
         + CountIfNoTimeout(Tail(flows), statuses)

RECURSIVE CountIf(_, _)
CountIf(flows, statuses) ==
    IF flows = <<>> THEN 0
    ELSE (IF Head(flows).status \in statuses THEN 1 ELSE 0) + CountIf(Tail(flows), statuses)

RECURSIVE CountType(_, _)
CountType(flows, type) ==
    IF flows = <<>> THEN 0
    ELSE (IF Head(flows).type = type THEN 1 ELSE 0) + CountType(Tail(flows), type)

(* sum(f.get('duration', 0) for f in completed_flows if f.get('duration')) *)
RECURSIVE SumDuration(_)
SumDuration(flows) ==
    IF flows = <<>> THEN 0
    ELSE (IF Head(flows).status \in {"completed", "error", "timeout"}
             /\ Head(flows).duration # None
          THEN Val(Head(flows).duration) ELSE 0) + SumDuration(Tail(flows))

(* the metrics without the guards against an empty ledger *)
FlowMetricsUnguarded ==
    LET all_flows == agent_flows \o monitor_flows
        active_count == Cardinality(DOMAIN active_flows)
        completed == CountIf(all_flows, {"completed", "error", "timeout"})
        successful == CountIf(all_flows, {"completed"})
    IN  [ total_flows |-> Len(all_flows) + active_count,
          completed_flows |-> completed,
          active_flows |-> active_count,
          success_rate |-> <<successful * 100, completed>>,
          average_duration |-> <<SumDuration(all_flows), completed>>,
          agent_flows |-> CountType(all_flows, "agent_analysis"),
          monitor_flows |-> CountType(all_flows, "background_monitor"),
          total_traces |-> Len(traces),
          traces_enabled |-> traces_enabled ]

(* A quotient a / b of the code is kept as the pair <<a, b>>; 0 is <<0, 1>>. *)
FlowMetrics ==
    LET all_flows == agent_flows \o monitor_flows
        active_count == Cardinality(DOMAIN active_flows)
        completed == CountIf(all_flows, {"completed", "error", "timeout"})
        successful == CountIf(all_flows, {"completed"})
    IN  IF all_flows = <<>>
        THEN [ total_flows |-> active_count,
               completed_flows |-> 0,
               active_flows |-> active_count,
               success_rate |-> <<0, 1>>,
               average_duration |-> <<0, 1>>,
               agent_flows |-> 0,
               monitor_flows |-> 0,
               total_traces |-> Len(traces),
               traces_enabled |-> traces_enabled ]
        ELSE [ total_flows |-> Len(all_flows) + active_count,
               completed_flows |-> completed,
               active_flows |-> active_count,
               success_rate |-> IF completed > 0 THEN <<successful * 100, completed>>
                                ELSE <<0, 1>>,
               average_duration |-> IF completed > 0
                                    THEN <<SumDuration(all_flows), completed>>
                                    ELSE <<0, 1>>,
               agent_flows |-> CountType(all_flows, "agent_analysis"),
               monitor_flows |-> CountType(all_flows, "background_monitor"),
               total_traces |-> Len(traces),
               traces_enabled |-> traces_enabled ]

get_flow_metrics ==
    /\ ret' = Some(FlowMetrics)
    /\ UNCHANGED <<active_flows, agent_flows, monitor_flows, traces, traces_enabled, cost_flows,
                   now, nticks, nstarts>>

----------------------------------------------------------------------------
(* get_agent_flows / get_monitor_flows *)

(* int(os.getenv("AGENT_TELEMETRY_DEFAULT_QUERY_LIMIT", "20")) *)
DefaultQueryLimit == 20

(* the limit arguments of the queries: None takes the default *)
QueryLimits == {None, Some(0), Some(1), Some(2)}

(* the orders in which self.active_flows.values() can list the flows of ids *)
Orderings(ids) ==
    {order \in [1..Cardinality(ids) -> ids] :
        \A i, j \in 1..Cardinality(ids) : i # j => order[i] # order[j]}

(* [flow for flow in self.active_flows.values() if flow['type'] == type] *)
ActiveOfType(type) ==
    {flow_id \in DOMAIN active_flows : active_flows[flow_id].type = type}

(* one step of the stable sort: flow goes behind every flow that does not    *)
(* start before it                                                           *)
RECURSIVE InsertByStartDesc(_, _)
InsertByStartDesc(sorted, flow) ==
    IF sorted = <<>> THEN <<flow>>
    ELSE IF IsoGreater(flow.startTime, Head(sorted).startTime)
         THEN <<flow>> \o sorted
         ELSE <<Head(sorted)>> \o InsertByStartDesc(Tail(sorted), flow)

(* flows.sort(key=lambda x: x['startTime'], reverse=True) *)
RECURSIVE SortByStartDesc(_)
SortByStartDesc(flows) ==
    IF flows = <<>> THEN <<>>
    ELSE InsertByStartDesc(SortByStartDesc(Front(flows)), Last(flows))

(* flows[:limit] *)
Cut(flows, limit) == IF Len(flows) <= limit THEN flows ELSE SubSeq(flows, 1, limit)

(* the list a query returns, the active flows being listed in this order *)
QueryFlows(completed, order, limit) ==
    LET active == [i \in 1..Len(order) |-> active_flows[order[i]]]
        n == IF limit = None THEN DefaultQueryLimit ELSE Val(limit)
    IN  Cut(SortByStartDesc(completed \o active), n)

(* A returned list is held in ret as the record [flows |-> list], the name   *)
(* the API gives it.                                                         *)
get_agent_flows(limit) ==
    /\ \E order \in Orderings(ActiveOfType("agent_analysis")) :
          ret' = Some([flows |-> QueryFlows(agent_flows, order, limit)])
    /\ UNCHANGED <<active_flows, agent_flows, monitor_flows, traces, traces_enabled, cost_flows,
                   now, nticks, nstarts>>

get_monitor_flows(limit) ==
    /\ \E order \in Orderings(ActiveOfType("background_monitor")) :
          ret' = Some([flows |-> QueryFlows(monitor_flows, order, limit)])
    /\ UNCHANGED <<active_flows, agent_flows, monitor_flows, traces, traces_enabled, cost_flows,
                   now, nticks, nstarts>>

----------------------------------------------------------------------------
(* CostVisualizer: _calculate_token_cost, _calculate_flow_costs,             *)
(* _calculate_cost_breakdown, get_session_costs                              *)
(*                                                                           *)
(* A rate is kept in quarter dollars per million tokens and a cost as the    *)
(* exact product tokens * rate, that is in 1 / (4 * 1,000,000) of a dollar;  *)
(* a quotient a / b is the pair <<a, b>>.                                    *)

QuartersPerDollar == 4
TokensPerMillion == 1000000
CostUnitsPerDollar == QuartersPerDollar * TokensPerMillion

(* CLAUDE_35_HAIKU_PRICING: 0.25 and 1.25 dollars per million tokens *)
InputQuartersPer1M == 1
OutputQuartersPer1M == 5

(* the estimates of lines 164-171 *)
AgentEstimatedInput == 50000
AgentEstimatedOutput == 2000
MonitorEstimatedInput == 30000
MonitorEstimatedOutput == 1500

(* flow_costs[-10:] *)
DetailFlows == 10

(* session_analysis['estimated_context_size'] *)
EstimatedContextSize == 30000

(* a per-call charge on top of the two products *)
CalculateTokenCostWithFee(input_tokens, output_tokens, flow_id) ==
    [ flow_id |-> flow_id,
      input_tokens |-> input_tokens,
      output_tokens |-> output_tokens,
      input_cost |-> input_tokens * InputQuartersPer1M + QuartersPerDollar,
      output_cost |-> output_tokens * OutputQuartersPer1M,
      total_cost |-> input_tokens * InputQuartersPer1M + QuartersPerDollar
                     + output_tokens * OutputQuartersPer1M ]

(* the costs rounded to whole cents, as round(cost, 2) would *)
CalculateTokenCostRounded(input_tokens, output_tokens, flow_id) ==
    LET cent == CostUnitsPerDollar \div 100
        Round(c) == ((2 * c + cent) \div (2 * cent)) * cent
        input_cost == Round(input_tokens * InputQuartersPer1M)
        output_cost == Round(output_tokens * OutputQuartersPer1M)
    IN  [ flow_id |-> flow_id,
          input_tokens |-> input_tokens,
          output_tokens |-> output_tokens,
          input_cost |-> input_cost,
          output_cost |-> output_cost,
          total_cost |-> input_cost + output_cost ]

CalculateTokenCost(input_tokens, output_tokens, flow_id) ==
    LET input_cost == input_tokens * InputQuartersPer1M
        output_cost == output_tokens * OutputQuartersPer1M
    IN  [ flow_id |-> flow_id,
          input_tokens |-> input_tokens,
          output_tokens |-> output_tokens,
          input_cost |-> input_cost,
          output_cost |-> output_cost,
          total_cost |-> input_cost + output_cost ]

(* flow.get('tokens', {}).get('input', estimated_input) *)
InputTokensOf(flow, flow_type) ==
    IF "tokens" \in DOMAIN flow /\ "input" \in DOMAIN flow.tokens
    THEN flow.tokens.input
    ELSE IF flow_type = "agent" THEN AgentEstimatedInput ELSE MonitorEstimatedInput

(* flow.get('tokens', {}).get('output', estimated_output) *)
OutputTokensOf(flow, flow_type) ==
    IF "tokens" \in DOMAIN flow /\ "output" \in DOMAIN flow.tokens
    THEN flow.tokens.output
    ELSE IF flow_type = "agent" THEN AgentEstimatedOutput ELSE MonitorEstimatedOutput

(* the flow_cost record of lines 182-192 *)
FlowCost(flow, flow_type) ==
    LET input_tokens == InputTokensOf(flow, flow_type)
        output_tokens == OutputTokensOf(flow, flow_type)
        cost_info == CalculateTokenCost(input_tokens, output_tokens, flow.id)
    IN  [ id |-> flow.id,
          duration_seconds |-> IF flow.duration # None /\ Val(flow.duration) # 0
                               THEN <<Val(flow.duration), 1000>> ELSE <<0, 1>>,
          status |-> flow.status,
          input_tokens |-> input_tokens,
          output_tokens |-> output_tokens,
          total_tokens |-> input_tokens + output_tokens,
          cost |-> cost_info.total_cost,
          input_cost |-> cost_info.input_cost,
          output_cost |-> cost_info.output_cost ]

(* flow_costs after the loop of lines 161-197 *)
FlowCosts(flows, flow_type) == [k \in 1..Len(flows) |-> FlowCost(flows[k], flow_type)]

(* the running totals of the loop *)
RECURSIVE SumField(_, _)
SumField(flow_costs, field) ==
    IF flow_costs = <<>> THEN 0
    ELSE SumField(Front(flow_costs), field) + Last(flow_costs)[field]

(* the summary of lines 156-204, for a list that is not empty *)
FlowCostsSummary(flows, flow_type) ==
    LET flow_costs == FlowCosts(flows, flow_type)
        total_input == SumField(flow_costs, "input_tokens")
        total_output == SumField(flow_costs, "output_tokens")
        total_cost == SumField(flow_costs, "cost")
    IN  [ flow_count |-> Len(flows),
          total_input_tokens |-> total_input,
          total_output_tokens |-> total_output,
          total_tokens |-> total_input + total_output,
          total_cost |-> total_cost,
          average_cost_per_flow |-> <<total_cost, Len(flows)>>,
          flows |-> LastN(flow_costs, DetailFlows) ]

(* _calculate_flow_costs without its test of the empty list *)
CalculateFlowCostsUnguarded(flows, flow_type) == FlowCostsSummary(flows, flow_type)

(* _calculate_flow_costs *)
CalculateFlowCosts(flows, flow_type) ==
    IF flows = <<>>
    THEN [ flow_count |-> 0,
           total_input_tokens |-> 0,
           total_output_tokens |-> 0,
           total_cost |-> 0,
           average_cost_per_flow |-> <<0, 1>>,
           flows |-> <<>> ]
    ELSE FlowCostsSummary(flows, flow_type)

(* _calculate_cost_breakdown *)
CalculateCostBreakdown(agent_list, monitor_list) ==
    LET agent_costs == CalculateFlowCosts(agent_list, "agent")
        monitor_costs == CalculateFlowCosts(monitor_list, "monitor")
        context_cost == CalculateTokenCost(EstimatedContextSize, 0, "context")
        total_input_tokens == agent_costs.total_input_tokens
                              + monitor_costs.total_input_tokens
        total_output_tokens == agent_costs.total_output_tokens
                               + monitor_costs.total_output_tokens
        total_cost == agent_costs.total_cost + monitor_costs.total_cost
    IN  [ agent_analysis |-> agent_costs,
          background_monitoring |-> monitor_costs,
          session_context |->
              [ estimated_context_size |-> EstimatedContextSize,
                context_cost_per_call |-> context_cost.input_cost,
                message_count |-> 20 ],
          totals |->
              [ total_input_tokens |-> total_input_tokens,
                total_output_tokens |-> total_output_tokens,
                total_tokens |-> total_input_tokens + total_output_tokens,
                total_cost |-> total_cost,
                average_cost_per_request |->
                    <<total_cost, Max(Len(agent_list) + Len(monitor_list), 1)>> ] ]

(* Dollar amounts of the projections: exact fractions <<numerator,           *)
(* denominator>> in lowest terms.  A fraction whose denominator is 0 stands  *)
(* for a division that raises ZeroDivisionError, and stays so through every  *)
(* operation on it.                                                          *)
Abs(n) == IF n < 0 THEN 0 - n ELSE n

RECURSIVE GCD(_, _)
GCD(a, b) == IF b = 0 THEN a ELSE GCD(b, a % b)

Fraction(a, b) ==
    IF b = 0 THEN <<a, 0>>
    ELSE LET g == GCD(Abs(a), Abs(b))
             sign == IF b < 0 THEN 0 - 1 ELSE 1
         IN  <<sign * (a \div g), sign * (b \div g)>>

(* x * k for an integer k *)
Times(x, k) ==
    IF x[2] = 0 THEN x
    ELSE LET g == GCD(Abs(k), x[2]) IN Fraction(x[1] * (k \div g), x[2] \div g)

(* x * y *)
Product(x, y) ==
    IF x[2] = 0 \/ y[2] = 0 THEN <<x[1], 0>>
    ELSE LET u == Fraction(x[1], y[2])
             v == Fraction(y[1], x[2])
         IN  Fraction(u[1] * v[1], u[2] * v[2])

(* x + y *)
Plus(x, y) ==
    IF x[2] = 0 \/ y[2] = 0 THEN <<x[1], 0>>
    ELSE LET g == GCD(x[2], y[2])
         IN  Fraction(x[1] * (y[2] \div g) + y[1] * (x[2] \div g), x[2] * (y[2] \div g))

(* x - y *)
Minus(x, y) == Plus(x, <<0 - y[1], y[2]>>)

(* x / y *)
Quotient(x, y) ==
    IF y[1] = 0 THEN <<x[1], 0>> ELSE Product(x, <<y[2], y[1]>>)

(* x > y *)
Greater(x, y) == Minus(x, y)[1] > 0

(* a cost of the breakdown, kept there in cost units, in dollars *)
Dollars(units) == Fraction(units, CostUnitsPerDollar)

(* an average of the breakdown, kept there as <<cost units, divisor>> *)
AverageDollars(average) ==
    IF average[2] = 0 THEN <<average[1], 0>>
    ELSE Fraction(average[1], average[2] * CostUnitsPerDollar)

(* _calculate_projections: the constants of lines 230-238, 267-269, 274 *)
CyclesPerHour == 12
CyclesPerDay == 288
EstimatedAnalysesPerDay == 10
DaysPerMonth == 30
SessionRotationsPerDay == <<7, 5>>
MaxContext == 300000
CyclesBeforeRotation == 200
EstimatedCostWithRotation == <<50, 1>>

(* _calculate_no_rotation_cost *)
CalculateNoRotationCost ==
    LET cost_per_call_max ==
            Dollars(CalculateTokenCost(MaxContext, 0, "context").input_cost)
    IN  Times(cost_per_call_max, CyclesBeforeRotation)

(* _calculate_rotation_savings_percentage *)
CalculateRotationSavingsPercentage ==
    LET cost_without_rotation == CalculateNoRotationCost
        cost_with_rotation == EstimatedCostWithRotation
    IN  IF Greater(cost_without_rotation, <<0, 1>>)
        THEN Times(Quotient(Minus(cost_without_rotation, cost_with_rotation),
                            cost_without_rotation), 100)
        ELSE <<0, 1>>

(* a monthly value of a calendar month of 365/12 days *)
MonthlyByCalendar(daily) == Product(daily, Fraction(365, 12))

(* a monthly value: the daily expression times 30 (lines 253-255) *)
Monthly(daily) == Times(daily, DaysPerMonth)

(* _calculate_projections.  Python multiplies from the left, so the monthly  *)
(* values are the products (x * 288) * 30 and (x * 10) * 30.                 *)
CalculateProjections(cost_breakdown) ==
    LET monitor_cost_per_cycle ==
            AverageDollars(cost_breakdown.background_monitoring.average_cost_per_flow)
        agent_cost_per_analysis ==
            AverageDollars(cost_breakdown.agent_analysis.average_cost_per_flow)
    IN  [ hourly |->
            [ background_monitoring |-> Times(monitor_cost_per_cycle, CyclesPerHour),
              agent_analysis |->
                  Product(agent_cost_per_analysis, Fraction(EstimatedAnalysesPerDay, 24)),
              total_estimated |->
                  Plus(Times(monitor_cost_per_cycle, CyclesPerHour),
                       Product(agent_cost_per_analysis, Fraction(EstimatedAnalysesPerDay, 24))) ],
          daily |->
            [ background_monitoring |-> Times(monitor_cost_per_cycle, CyclesPerDay),
              agent_analysis |-> Times(agent_cost_per_analysis, EstimatedAnalysesPerDay),
              session_rotations |-> SessionRotationsPerDay,
              total_estimated |->
                  Plus(Times(monitor_cost_per_cycle, CyclesPerDay),
                       Times(agent_cost_per_analysis, EstimatedAnalysesPerDay)) ],
          monthly |->
            [ background_monitoring |->
                  Monthly(Times(monitor_cost_per_cycle, CyclesPerDay)),
              agent_analysis |->
                  Monthly(Times(agent_cost_per_analysis, EstimatedAnalysesPerDay)),
              total_estimated |->
                  Monthly(Plus(Times(monitor_cost_per_cycle, CyclesPerDay),
                               Times(agent_cost_per_analysis, EstimatedAnalysesPerDay))) ],
          session_rotation_savings |->
            [ cost_without_rotation |-> CalculateNoRotationCost,
              cost_with_rotation |-> Dollars(cost_breakdown.totals.total_cost),
              savings_percentage |-> CalculateRotationSavingsPercentage ] ]

(* _get_optimization_recommendations: the titles, in order.  The warning is  *)
(* given when the average cost per request is above 0.05 dollars.            *)
HighCostThreshold == <<1, 20>>

OptimizationRecommendations(cost_breakdown) ==
    LET avg_cost == AverageDollars(cost_breakdown.totals.average_cost_per_request)
    IN  (IF Greater(avg_cost, HighCostThreshold)
         THEN <<"High Average Cost Per Request">> ELSE <<>>)
        \o <<"Session Rotation Efficiency", "Token Usage Optimization", "Cost Monitoring">>

(* Does computing the report divide by zero ? *)
RaisesZeroDivision(agent_list, monitor_list) ==
    LET cost_breakdown == CalculateCostBreakdown(agent_list, monitor_list)
    IN  \/ cost_breakdown.agent_analysis.average_cost_per_flow[2] = 0
        \/ cost_breakdown.background_monitoring.average_cost_per_flow[2] = 0
        \/ cost_breakdown.totals.average_cost_per_request[2] = 0
        \/ CalculateRotationSavingsPercentage[2] = 0

(* the report get_session_costs builds from the two lists (lines 66-87), or  *)
(* the error record of its except clause (lines 89-91)                       *)
SessionCosts(agent_list, monitor_list) ==
    IF RaisesZeroDivision(agent_list, monitor_list)
    THEN [ error |-> "division by zero" ]
    ELSE LET cost_breakdown == CalculateCostBreakdown(agent_list, monitor_list)
         IN  [ cost_breakdown |-> cost_breakdown,
               projections |-> CalculateProjections(cost_breakdown),
               optimization_recommendations |-> OptimizationRecommendations(cost_breakdown) ]

(* get_session_costs consuming the completed agent flows it reports on *)
get_session_costs_consuming ==
    /\ \E agent_order \in Orderings(ActiveOfType("agent_analysis")),
          monitor_order \in Orderings(ActiveOfType("background_monitor")) :
          ret' = Some(SessionCosts(QueryFlows(agent_flows, agent_order, None),
                                   QueryFlows(monitor_flows, monitor_order, None)))
    /\ agent_flows' = <<>>
    /\ UNCHANGED <<active_flows, monitor_flows, traces, traces_enabled,
                   cost_flows, now, nticks, nstarts>>

(* get_session_costs: the report on the flows the two queries return *)
get_session_costs ==
    /\ \E agent_order \in Orderings(ActiveOfType("agent_analysis")),
          monitor_order \in Orderings(ActiveOfType("background_monitor")) :
          ret' = Some(SessionCosts(QueryFlows(agent_flows, agent_order, None),
                                   QueryFlows(monitor_flows, monitor_order, None)))
    /\ UNCHANGED <<active_flows, agent_flows, monitor_flows, traces, traces_enabled,
                   cost_flows, now, nticks, nstarts>>

(* a call of _calculate_flow_costs on the flows handed to it *)
calculate_flow_costs(flow_type) ==
    /\ ret' = Some(CalculateFlowCosts(cost_flows, flow_type))
    /\ UNCHANGED <<active_flows, agent_flows, monitor_flows, traces, traces_enabled,
                   cost_flows, now, nticks, nstarts>>

----------------------------------------------------------------------------
(* The clock *)

Tick(d) ==
    /\ now' = now + d
    /\ nticks' = nticks + 1
    /\ UNCHANGED <<active_flows, agent_flows, monitor_flows, traces, traces_enabled, cost_flows,
                   nstarts, ret>>

----------------------------------------------------------------------------
(* The callers before their first step *)

(* BackgroundMonitor.__init__ (line 36) and the start of _monitoring_loop.   *)
(* pc: where the loop stands; flow_id: the flow_id of the running cycle;     *)
(* started: the clock when the cycle was started; recent: the last three of  *)
(* _recent_cycle_times, in seconds; cycles: how many cycles were started.    *)
MonitorInit ==
    [ pc |-> "loop", analysis_cycles |-> 0, flow_id |-> None, started |-> 0,
      recent |-> <<>>, cycles |-> 0 ]

(* the callers of analyze_cluster *)
Callers == {1, 2}

RequestsInit == [c \in Callers |-> [pc |-> "idle", request |-> None, flow_id |-> None]]

----------------------------------------------------------------------------
(* TelemetryCollector.__init__ *)

Init ==
    /\ active_flows = EmptyTable
    /\ agent_flows = <<>>
    /\ monitor_flows = <<>>
    /\ traces = <<>>
    /\ traces_enabled \in BOOLEAN
    /\ now = UnitsPerHour
    /\ nticks = 0
    /\ nstarts = 0
    /\ ret = None
    /\ cost_flows = <<>>
    /\ monitor = MonitorInit
    /\ requests = RequestsInit

(* the ids an end_*, add_tool_call or update_tokens call may name *)
CallIds == (DOMAIN active_flows) \cup AgentIds \cup {UnknownId}

(* The ledger under any interleaving of calls made at one reading of the     *)
(* clock: up to MaxStarts flows on two request ids and one monitoring cycle, *)
(* a successful end_agent_flow and a timed-out end_monitor_flow, one token   *)
(* update and one tool call per flow.                                        *)
Next ==
    \/ \E flow_id \in AgentIds : nstarts < MaxStarts /\ start_agent_flow(flow_id, "id") /\ UNCHANGED drivers
    \/ nstarts < MaxStarts /\ start_monitor_flow(1, "id") /\ UNCHANGED drivers
    \/ \E flow_id \in CallIds : end_agent_flow(flow_id, EndOk) /\ UNCHANGED drivers
    \/ \E flow_id \in CallIds : end_monitor_flow(flow_id, EndTimeout) /\ UNCHANGED drivers
    \/ \E flow_id \in CallIds :
          /\ flow_id \in DOMAIN active_flows => active_flows[flow_id].tools = <<>>
          /\ add_tool_call(flow_id, "execute_bash", None)
          /\ UNCHANGED drivers
    \/ \E flow_id \in CallIds :
          /\ flow_id \in DOMAIN active_flows => active_flows[flow_id].tokens.input = 0
          /\ update_tokens(flow_id, 100, 0)
          /\ UNCHANGED drivers
    \/ \E h \in ClearHours : clear_old_flows(h) /\ UNCHANGED drivers
    \/ get_flow_metrics /\ UNCHANGED drivers

Spec == Init /\ [][Next]_vars

(* One flow from its start to after its end, in detail: the clock advances,  *)
(* every argument combination of end_*, every outcome of the trace creation, *)
(* token updates and tool calls.                                             *)
(* the ids a call of FlowSpec may name *)
FlowCallIds == (DOMAIN active_flows) \cup {AgentId1, UnknownId}

FlowNext ==
    \/ \E d \in TickSteps : nticks < MaxFlowTicks /\ Tick(d) /\ UNCHANGED drivers
    \/ \E o \in TraceOutcomes : nstarts = 0 /\ start_agent_flow(AgentId1, o) /\ UNCHANGED drivers
    \/ \E o \in TraceOutcomes : nstarts = 0 /\ start_monitor_flow(1, o) /\ UNCHANGED drivers
    \/ \E flow_id \in FlowCallIds, a \in EndArgs : end_agent_flow(flow_id, a) /\ UNCHANGED drivers
    \/ \E flow_id \in FlowCallIds, a \in EndArgs : end_monitor_flow(flow_id, a) /\ UNCHANGED drivers
    \/ \E flow_id \in FlowCallIds, details \in ToolDetails :
          /\ flow_id \in DOMAIN active_flows => Len(active_flows[flow_id].tools) < MaxToolCalls
          /\ add_tool_call(flow_id, "execute_bash", details)
          /\ UNCHANGED drivers
    \/ \E flow_id \in FlowCallIds, delta \in TokenDeltas :
          /\ flow_id \in DOMAIN active_flows =>
                (active_flows[flow_id].tokens.input \div 100)
                  + (active_flows[flow_id].tokens.output \div 50) < MaxTokenUpdates
          /\ update_tokens(flow_id, delta[1], delta[2])
          /\ UNCHANGED drivers
    \/ \E h \in ClearHours : clear_old_flows(h) /\ UNCHANGED drivers
    \/ get_flow_metrics /\ UNCHANGED drivers

FlowSpec == Init /\ [][FlowNext]_vars

----------------------------------------------------------------------------
(* Two agent flows and a monitor flow, started in this order with the clock  *)
(* running, and the queries over them.                                       *)

EndPlain == [success |-> TRUE, error |-> None, tokens |-> None, tools |-> None]

QueryNext ==
    \/ nticks < MaxFlowTicks /\ Tick(Ms(1001)) /\ UNCHANGED drivers
    \/ nstarts = 0 /\ start_agent_flow(AgentId1, "id") /\ UNCHANGED drivers
    \/ nstarts = 1 /\ start_agent_flow(AgentId2, "id") /\ UNCHANGED drivers
    \/ nstarts = 2 /\ start_monitor_flow(1, "id") /\ UNCHANGED drivers
    \/ \E flow_id \in CallIds : end_agent_flow(flow_id, EndOk) /\ UNCHANGED drivers
    \/ \E flow_id \in CallIds : end_monitor_flow(flow_id, EndPlain) /\ UNCHANGED drivers
    \/ \E limit \in QueryLimits : get_agent_flows(limit) /\ UNCHANGED drivers
    \/ \E limit \in QueryLimits : get_monitor_flows(limit) /\ UNCHANGED drivers
    \/ get_session_costs /\ UNCHANGED drivers
    \/ \E hours \in ClearHours : clear_old_flows(hours) /\ UNCHANGED drivers

QuerySpec == Init /\ [][QueryNext]_vars

----------------------------------------------------------------------------
(* _calculate_flow_costs on the lists get_agent_flows() returns for a        *)
(* ledger of up to MaxCostFlows completed flows.                             *)

MaxCostFlows == 12

(* the token counts the flows of a run were ended with *)
TokenPatterns == {"final", "million", "rising", "none"}

CostTokens(pattern, k) ==
    CASE pattern = "final" -> FinalTokens
      [] pattern = "million" -> [input |-> TokensPerMillion, output |-> TokensPerMillion]
      [] pattern = "rising" -> [input |-> 1000 * k, output |-> 100 * k]
      [] OTHER -> [input |-> 0, output |-> 0]

(* the k-th flow of a run: started at second k, ended 1.5 s later *)
CostedFlow(k, tokens) ==
    [ id |-> <<"analysis", 0, k>>,
      type |-> "agent_analysis",
      status |-> "completed",
      startTime |-> IsoFormat(UnitsPerHour + k * UnitsPerSecond),
      endTime |-> Some(IsoFormat(UnitsPerHour + k * UnitsPerSecond + Ms(1500))),
      duration |-> Some(1500),
      cycle |-> 0,
      tools |-> <<>>,
      tokens |-> tokens,
      error |-> None,
      trace_id |-> <<"mock-trace", <<"analysis", 0, k>>>>,
      trace |-> FALSE ]

(* self.agent_flows after n flows ended one after the other *)
CompletedRun(n, pattern) == [k \in 1..n |-> CostedFlow(k, CostTokens(pattern, k))]

(* what get_agent_flows() returns for these runs *)
CostInputs ==
    {Cut(SortByStartDesc(CompletedRun(n, pattern)), DefaultQueryLimit) :
        n \in 0..MaxCostFlows, pattern \in TokenPatterns}

(* the same runs made by the monitoring loop: the k-th flow is the flow of   *)
(* cycle k                                                                   *)
AsMonitorFlow(flow) ==
    LET flow_id == <<"monitor-cycle", flow.id[3], flow.startTime[1]>>
    IN  [flow EXCEPT !.id = flow_id,
                     !.type = "background_monitor",
                     !.cycle = flow.id[3],
                     !.trace_id = <<"mock-trace", flow_id>>]

(* what get_monitor_flows() returns for these runs of no, one, two and       *)
(* MaxCostFlows cycles                                                       *)
MonitorCostInputs ==
    {[k \in 1..Len(flows) |-> AsMonitorFlow(flows[k])] :
        flows \in {f \in CostInputs : Len(f) \in {0, 1, 2, MaxCostFlows}}}

(* lines 66-87 of get_session_costs on the lists of the two queries *)
calculate_session_costs(monitor_list) ==
    /\ ret' = Some(SessionCosts(cost_flows, monitor_list))
    /\ UNCHANGED <<active_flows, agent_flows, monitor_flows, traces, traces_enabled,
                   cost_flows, now, nticks, nstarts>>

CostInit ==
    /\ active_flows = EmptyTable
    /\ agent_flows = <<>>
    /\ monitor_flows = <<>>
    /\ traces = <<>>
    /\ traces_enabled \in BOOLEAN
    /\ now = UnitsPerHour
    /\ nticks = 0
    /\ nstarts = 0
    /\ ret = None
    /\ cost_flows \in CostInputs
    /\ monitor = MonitorInit
    /\ requests = RequestsInit

CostNext ==
    \E flow_type \in {"agent", "monitor"} : calculate_flow_costs(flow_type) /\ UNCHANGED drivers

CostSpec == CostInit /\ [][CostNext]_vars

(* the summaries and the report get_session_costs builds from them *)
SessionCostNext ==
    \/ CostNext
    \/ \E monitor_list \in MonitorCostInputs : calculate_session_costs(monitor_list) /\ UNCHANGED drivers

SessionCostSpec == CostInit /\ [][SessionCostNext]_vars

----------------------------------------------------------------------------
(* BackgroundMonitor._monitoring_loop and _run_analysis_cycle                *)
(* (src/src/background_monitor.py).  The loop runs one cycle under           *)
(* asyncio.wait_for(..., timeout=1200.0), then sleeps 300 s.  A cycle starts *)
(* its monitor flow, awaits the analysis in a thread, ends the flow          *)
(* according to the outcome and sleeps 300 s itself.  The steps between two  *)
(* awaits are one action.                                                    *)

MaxCycles == 4

CycleTimeoutSeconds == 1200
CycleSleepSeconds == 300
RotationCycles == 200
SlowCycleSeconds == 600

(* the time an analysis is seen to take between two looks at it *)
AnalysisStepSeconds == 600

Seconds(n) == n * UnitsPerSecond

(* how long the running cycle has been running, in seconds *)
CycleElapsed == (now - monitor.started) \div UnitsPerSecond

(* mock_tools, mock_tokens of lines 293-304; len(monitoring_prompt) // 4 is  *)
(* taken as 180, the estimate of the output tokens as 300                    *)
MonitorPromptTokens == 180
MonitorOutputTokens == 300

MonitorMockTools ==
    << [name |-> "execute_bash_batch", timestamp |-> None, duration |-> Some(8500)],
       [name |-> "execute_bash", timestamp |-> None, duration |-> Some(3200)] >>

(* _estimate_monitor_input_tokens *)
EstimateMonitorInputTokens(analysis_cycles) ==
    3000 + MonitorPromptTokens + Min(5000 + analysis_cycles * 1500, 180000) + 500

MonitorSuccessArgs(analysis_cycles) ==
    [ success |-> TRUE, error |-> None,
      tokens |-> Some([input |-> EstimateMonitorInputTokens(analysis_cycles),
                       output |-> MonitorOutputTokens]),
      tools |-> Some(MonitorMockTools) ]

(* end_monitor_flow(flow_id, success=False, error=str(e)) *)
MonitorErrorArgs(error) ==
    [success |-> FALSE, error |-> Some(error), tokens |-> None, tools |-> None]

(* the errors an analysis raises *)
AnalysisErrors == {ErrBoom, ErrTimeout}

(* lines 176-218: the cycle counter is incremented and the flow of the cycle *)
(* is started as cycle analysis_cycles + 1                                   *)
MonitorStartCycle ==
    /\ monitor.pc = "loop"
    /\ monitor.cycles < MaxCycles
    /\ LET analysis_cycles == monitor.analysis_cycles + 1
       IN  /\ start_monitor_flow(analysis_cycles + 1, "id")
           /\ monitor' = [monitor EXCEPT !.pc = "analysis",
                                         !.analysis_cycles = analysis_cycles,
                                         !.flow_id = Some(MonitorFlowId(analysis_cycles + 1)),
                                         !.started = now,
                                         !.cycles = @ + 1]
    /\ UNCHANGED requests

(* await asyncio.to_thread(self.current_session, monitoring_prompt) has not  *)
(* returned yet                                                              *)
MonitorAnalysisRuns ==
    /\ monitor.pc = "analysis"
    /\ CycleElapsed < CycleTimeoutSeconds
    /\ now' = now + Seconds(AnalysisStepSeconds)
    /\ UNCHANGED <<active_flows, agent_flows, monitor_flows, traces, traces_enabled,
                   nticks, nstarts, ret, cost_flows, monitor, requests>>

(* lines 252-321: the analysis returned a response that is not empty.        *)
(* update_tokens and add_tool_call are followed at once by end_monitor_flow  *)
(* with tokens and tools, which replaces what they wrote.                    *)
MonitorResponse ==
    /\ monitor.pc = "analysis"
    /\ CycleElapsed < CycleTimeoutSeconds
    /\ end_monitor_flow(Val(monitor.flow_id), MonitorSuccessArgs(monitor.analysis_cycles + 1))
    /\ monitor' = [monitor EXCEPT !.pc = "cycle_sleep", !.analysis_cycles = @ + 1]
    /\ UNCHANGED requests

(* line 252: `if response:` is false and the cycle goes on to its sleep      *)
MonitorEmptyResponse ==
    /\ monitor.pc = "analysis"
    /\ CycleElapsed < CycleTimeoutSeconds
    /\ monitor' = [monitor EXCEPT !.pc = "cycle_sleep"]
    /\ UNCHANGED <<active_flows, agent_flows, monitor_flows, traces, traces_enabled,
                   now, nticks, nstarts, ret, cost_flows, requests>>

(* _rotate_session_if_needed, lines 458-485: should_rotate *)
ShouldRotate ==
    \/ monitor.analysis_cycles > 0 /\ monitor.analysis_cycles % RotationCycles = 0
    \/ /\ Len(monitor.recent) >= 3
       /\ monitor.recent[1] + monitor.recent[2] + monitor.recent[3] > 3 * SlowCycleSeconds

(* lines 325-342: the analysis raised; the flow is ended with the error and  *)
(* the session is rotated if needed, which resets analysis_cycles (lines     *)
(* 555-559) unless the rotation itself fails                                 *)
MonitorAnalysisRaises(error, rotation_fails) ==
    /\ monitor.pc = "analysis"
    /\ CycleElapsed < CycleTimeoutSeconds
    /\ end_monitor_flow(Val(monitor.flow_id), MonitorErrorArgs(error))
    /\ monitor' = IF ShouldRotate /\ ~rotation_fails
                  THEN [monitor EXCEPT !.pc = "cycle_sleep", !.analysis_cycles = 0,
                                       !.recent = <<>>]
                  ELSE [monitor EXCEPT !.pc = "cycle_sleep"]
    /\ UNCHANGED requests

(* lines 146-166: wait_for cancels the cycle after 1200 s; CancelledError is *)
(* no Exception, so no except clause of the cycle runs, and the loop logs    *)
(* the TimeoutError                                                          *)
MonitorCycleTimeout ==
    /\ monitor.pc = "analysis"
    /\ CycleElapsed >= CycleTimeoutSeconds
    /\ monitor' = [monitor EXCEPT !.pc = "loop_sleep"]
    /\ UNCHANGED <<active_flows, agent_flows, monitor_flows, traces, traces_enabled,
                   now, nticks, nstarts, ret, cost_flows, requests>>

(* line 345 and lines 151-157: the sleep of the cycle, after which wait_for  *)
(* returns and the time of the cycle is recorded                             *)
MonitorCycleSleep ==
    /\ monitor.pc = "cycle_sleep"
    /\ now' = now + Seconds(CycleSleepSeconds)
    /\ monitor' = [monitor EXCEPT !.pc = "loop_sleep",
                                  !.recent = LastN(Append(@, CycleElapsed + CycleSleepSeconds), 3)]
    /\ UNCHANGED <<active_flows, agent_flows, monitor_flows, traces, traces_enabled,
                   nticks, nstarts, ret, cost_flows, requests>>

(* line 168: the sleep of the loop *)
MonitorLoopSleep ==
    /\ monitor.pc = "loop_sleep"
    /\ now' = now + Seconds(CycleSleepSeconds)
    /\ monitor' = [monitor EXCEPT !.pc = "loop"]
    /\ UNCHANGED <<active_flows, agent_flows, monitor_flows, traces, traces_enabled,
                   nticks, nstarts, ret, cost_flows, requests>>

MonitorNext ==
    \/ MonitorStartCycle
    \/ MonitorAnalysisRuns
    \/ MonitorResponse
    \/ MonitorEmptyResponse
    \/ \E error \in AnalysisErrors, rotation_fails \in BOOLEAN :
          MonitorAnalysisRaises(error, rotation_fails)
    \/ MonitorCycleTimeout
    \/ MonitorCycleSleep
    \/ MonitorLoopSleep

MonitorSpec == Init /\ [][MonitorNext]_vars

----------------------------------------------------------------------------
(* KubernetesAgent.analyze_cluster (src/src/kubernetes_agent.py): each call  *)
(* builds its flow id from the clock and the request, starts its agent flow, *)
(* awaits the analysis and ends the flow.  Calls run concurrently: the steps *)
(* of one call between two awaits are one action.                            *)

RequestTexts == {"pods", "nodes"}

(* hash(request) % 10000: equal requests have equal hashes *)
RequestHash(request) == IF request = "pods" THEN 4711 ELSE 815

(* f"agent-analysis-{int(datetime.now().timestamp())}-{hash(request) % 10000}" *)
RequestFlowId(request) == <<"agent-analysis", EpochSeconds(now), RequestHash(request)>>

(* the ends of lines 433, 468 and 490 *)
AnalyzeEndArgs == {EndOk, [success |-> FALSE, error |-> Some(ErrTimedOut),
                           tokens |-> None, tools |-> None]}

(* lines 243-257: the flow id is built and the flow started *)
AnalyzeStart(caller, request) ==
    /\ requests[caller].pc = "idle"
    /\ start_agent_flow(RequestFlowId(request), "id")
    /\ requests' = [requests EXCEPT ![caller] =
                       [pc |-> "running", request |-> Some(request),
                        flow_id |-> Some(RequestFlowId(request))]]
    /\ UNCHANGED monitor

(* lines 405-433, 455-468, 485-490: the analysis is over and the flow of the *)
(* call is ended; update_tokens and add_tool_call are followed at once by    *)
(* end_agent_flow with tokens and tools, which replaces what they wrote      *)
AnalyzeEnd(caller, a) ==
    /\ requests[caller].pc = "running"
    /\ end_agent_flow(Val(requests[caller].flow_id), a)
    /\ requests' = [requests EXCEPT ![caller].pc = "done"]
    /\ UNCHANGED monitor

RequestNext ==
    \/ nticks < MaxFlowTicks /\ Tick(Ms(1001)) /\ UNCHANGED drivers
    \/ \E caller \in Callers, request \in RequestTexts : AnalyzeStart(caller, request)
    \/ \E caller \in Callers, a \in AnalyzeEndArgs : AnalyzeEnd(caller, a)

RequestSpec == Init /\ [][RequestNext]_vars

----------------------------------------------------------------------------
(* analyze_cluster path by path: after the start the call awaits             *)
(* ensure_initialized(), then the analysis under asyncio.wait_for; it        *)
(* returns from the initialization failure, from the success, from the       *)
(* TimeoutError clause and from the outer `except Exception` clause.         *)

(* mock_tools of lines 412-415; the token estimates of lines 417-418 are     *)
(* taken as 5000 and 200                                                     *)
AnalyzeMockTools ==
    << [name |-> "execute_bash_batch", timestamp |-> None, duration |-> Some(3000)],
       [name |-> "execute_bash", timestamp |-> None, duration |-> Some(1500)] >>

(* end_agent_flow(flow_id, success=True, tokens=mock_tokens, tools=mock_tools) *)
AnalyzeSuccessArgs ==
    [success |-> TRUE, error |-> None, tokens |-> Some(FinalTokens),
     tools |-> Some(AnalyzeMockTools)]

(* end_agent_flow(flow_id, success=False, error=...) of lines 266, 468, 490 *)
AnalyzeErrorArgs(error) ==
    [success |-> FALSE, error |-> Some(error), tokens |-> None, tools |-> None]

(* the call leaves through `return` *)
AnalyzeReturn(caller) ==
    /\ requests' = [requests EXCEPT ![caller].pc = "done"]
    /\ UNCHANGED monitor

(* lines 260-278: ensure_initialized() returned False *)
AnalyzeInitFails(caller) ==
    /\ requests[caller].pc = "running"
    /\ end_agent_flow(Val(requests[caller].flow_id), AnalyzeErrorArgs(ErrBoom))
    /\ AnalyzeReturn(caller)

(* lines 280-345: the agent is initialized and the analysis awaited *)
AnalyzeInitialized(caller) ==
    /\ requests[caller].pc = "running"
    /\ requests' = [requests EXCEPT ![caller].pc = "analysis"]
    /\ UNCHANGED <<active_flows, agent_flows, monitor_flows, traces, traces_enabled,
                   now, nticks, nstarts, ret, cost_flows, monitor>>

(* lines 347-453: the analysis returned; update_tokens and add_tool_call are *)
(* followed at once by end_agent_flow with tokens and tools, which replaces  *)
(* what they wrote                                                           *)
AnalyzeSucceeds(caller) ==
    /\ requests[caller].pc = "analysis"
    /\ end_agent_flow(Val(requests[caller].flow_id), AnalyzeSuccessArgs)
    /\ AnalyzeReturn(caller)

(* the TimeoutError clause returning without its end_agent_flow *)
AnalyzeTimesOutUnended(caller) ==
    /\ requests[caller].pc = "analysis"
    /\ ret' = None
    /\ UNCHANGED <<active_flows, agent_flows, monitor_flows, traces, traces_enabled,
                   now, nticks, nstarts, cost_flows>>
    /\ AnalyzeReturn(caller)

(* lines 455-483: wait_for raised asyncio.TimeoutError *)
AnalyzeTimesOut(caller) ==
    /\ requests[caller].pc = "analysis"
    /\ end_agent_flow(Val(requests[caller].flow_id), AnalyzeErrorArgs(ErrTimedOut))
    /\ AnalyzeReturn(caller)

(* lines 485-503: any other exception, raised while the call awaits the      *)
(* initialization or the analysis or works on the response                   *)
AnalyzeRaises(caller) ==
    /\ requests[caller].pc \in {"running", "analysis"}
    /\ end_agent_flow(Val(requests[caller].flow_id), AnalyzeErrorArgs(ErrBoom))
    /\ AnalyzeReturn(caller)

AnalyzeNext ==
    \/ nticks < MaxFlowTicks /\ Tick(Ms(1001)) /\ UNCHANGED drivers
    \/ \E caller \in Callers, request \in RequestTexts : AnalyzeStart(caller, request)
    \/ \E caller \in Callers : AnalyzeInitFails(caller)
    \/ \E caller \in Callers : AnalyzeInitialized(caller)
    \/ \E caller \in Callers : AnalyzeSucceeds(caller)
    \/ \E caller \in Callers : AnalyzeTimesOut(caller)
    \/ \E caller \in Callers : AnalyzeRaises(caller)

AnalyzeSpec == Init /\ [][AnalyzeNext]_vars

----------------------------------------------------------------------------
(* One flow id used by a caller again and again, with the clock running:     *)
(* starts, token updates, tool calls and ends of the same id.                *)

RestartNext ==
    \/ nticks < MaxFlowTicks /\ Tick(Ms(1001)) /\ UNCHANGED drivers
    \/ nstarts < MaxStarts /\ start_agent_flow(AgentId1, "id") /\ UNCHANGED drivers
    \/ \E a \in {EndOk, EndPlain} : end_agent_flow(AgentId1, a) /\ UNCHANGED drivers
    \/ /\ AgentId1 \in DOMAIN active_flows => Len(active_flows[AgentId1].tools) < MaxToolCalls
       /\ add_tool_call(AgentId1, "execute_bash", None)
       /\ UNCHANGED drivers
    \/ /\ AgentId1 \in DOMAIN active_flows =>
             active_flows[AgentId1].tokens.input \div 100 < MaxTokenUpdates
       /\ update_tokens(AgentId1, 100, 50)
       /\ UNCHANGED drivers

RestartSpec == Init /\ [][RestartNext]_vars

----------------------------------------------------------------------------
(* A request and a monitoring cycle running side by side at one reading of   *)
(* the clock: the flows are started, take token updates and tool calls      *)
(* while they run, and are ended without final values.                      *)

(* how many updates of TokenDeltas an active flow has taken *)
TokenUpdates(flow_data) == (flow_data.tokens.input \div 100) + (flow_data.tokens.output \div 50)

UpdateNext ==
    \/ /\ nstarts < MaxStarts
       /\ AgentId1 \notin DOMAIN active_flows
       /\ start_agent_flow(AgentId1, "id")
       /\ UNCHANGED drivers
    \/ /\ nstarts < MaxStarts
       /\ MonitorFlowId(1) \notin DOMAIN active_flows
       /\ start_monitor_flow(1, "id")
       /\ UNCHANGED drivers
    \/ end_agent_flow(AgentId1, EndPlain) /\ UNCHANGED drivers
    \/ end_monitor_flow(MonitorFlowId(1), EndPlain) /\ UNCHANGED drivers
    \/ \E flow_id \in FlowCallIds, details \in ToolDetails :
          /\ flow_id \in DOMAIN active_flows => Len(active_flows[flow_id].tools) < MaxToolCalls
          /\ add_tool_call(flow_id, "execute_bash", details)
          /\ UNCHANGED drivers
    \/ \E flow_id \in FlowCallIds, delta \in TokenDeltas :
          /\ flow_id \in DOMAIN active_flows => TokenUpdates(active_flows[flow_id]) < MaxTokenUpdates
          /\ update_tokens(flow_id, delta[1], delta[2])
          /\ UNCHANGED drivers

UpdateSpec == Init /\ [][UpdateNext]_vars

----------------------------------------------------------------------------
(* The callers of the one collector get_telemetry_collector() returns, side  *)
(* by side on the event loop: two analyze_cluster calls with different       *)
(* requests, hence different flow ids, and the monitoring loop with its      *)
(* ledger calls and its sleeps.  Each ledger call runs to its end before     *)
(* another begins.                                                           *)

(* the cycles the loop runs beside the requests *)
SharedCycles == 2

(* the request each caller sends *)
CallerRequest(caller) == IF caller = 1 THEN "pods" ELSE "nodes"

SharedNext ==
    \/ \E caller \in Callers : AnalyzeStart(caller, CallerRequest(caller))
    \/ \E caller \in Callers, a \in AnalyzeEndArgs : AnalyzeEnd(caller, a)
    \/ monitor.cycles < SharedCycles /\ MonitorStartCycle
    \/ MonitorResponse
    \/ \E error \in AnalysisErrors : MonitorAnalysisRaises(error, FALSE)
    \/ MonitorCycleSleep
    \/ MonitorLoopSleep

SharedSpec == Init /\ [][SharedNext]_vars

----------------------------------------------------------------------------
(* Helpers of the properties *)

(* s is t with some elements left out *)
RECURSIVE IsSubsequence(_, _)
IsSubsequence(s, t) ==
    IF s = <<>> THEN TRUE
    ELSE IF t = <<>> THEN FALSE
    ELSE IF Head(s) = Head(t) THEN IsSubsequence(Tail(s), Tail(t))
    ELSE IsSubsequence(s, Tail(t))

IdsOf(flows) == {flows[i].id : i \in 1..Len(flows)}

NoDuplicateIds(flows) ==
    \A i, j \in 1..Len(flows) : i # j => flows[i].id # flows[j].id

(* this step is end_agent_flow on an active flow *)
AgentEndStep(flow_id) ==
    /\ flow_id \in DOMAIN active_flows
    /\ flow_id \notin DOMAIN active_flows'
    /\ \E a \in EndArgs : end_agent_flow(flow_id, a)

(* this step is end_monitor_flow on an active flow *)
MonitorEndStep(flow_id) ==
    /\ flow_id \in DOMAIN active_flows
    /\ flow_id \notin DOMAIN active_flows'
    /\ \E a \in EndArgs : end_monitor_flow(flow_id, a)

(* this step is an end_* call on an id that is not active *)
UnknownEndStep(flow_id) ==
    /\ flow_id \notin DOMAIN active_flows
    /\ \E a \in EndArgs : end_agent_flow(flow_id, a) \/ end_monitor_flow(flow_id, a)

(* a flow leaves the active table in this step *)
SomeFlowEnds == \E flow_id \in DOMAIN active_flows : flow_id \notin DOMAIN active_flows'

----------------------------------------------------------------------------
(* C1: the two completed sequences and the trace archive never exceed their  *)
(* capacity, also after clear_old_flows; an end_agent_flow (end_monitor_flow)*)
(* on an active flow leaves the completed sequence of its kind holding the   *)
(* last `capacity` records of the old sequence followed by the record just   *)
(* ended, so the oldest is evicted first and the order is the end order.     *)
C1_WithinCapacity ==
    /\ Len(agent_flows) <= agent_flows_limit
    /\ Len(monitor_flows) <= monitor_flows_limit
    /\ Len(traces) <= traces_limit

C1_FifoStep ==
    \A flow_id \in CallIds :
        /\ AgentEndStep(flow_id) =>
              /\ ret' # None
              /\ agent_flows' = LastN(agent_flows \o <<Val(ret')>>, agent_flows_limit)
              /\ Len(agent_flows) = agent_flows_limit =>
                    /\ Len(agent_flows') = agent_flows_limit
                    /\ Front(agent_flows') = Tail(agent_flows)
        /\ MonitorEndStep(flow_id) =>
              /\ ret' # None
              /\ monitor_flows' = LastN(monitor_flows \o <<Val(ret')>>, monitor_flows_limit)
              /\ Len(monitor_flows) = monitor_flows_limit =>
                    /\ Len(monitor_flows') = monitor_flows_limit
                    /\ Front(monitor_flows') = Tail(monitor_flows)

C1_Capacity == [](C1_WithinCapacity) /\ [][C1_FifoStep]_vars

(* Three flows were started and all have ended; the agent sequence is full   *)
(* and holds the second and the third flow started, in this order.           *)
C1_Witness ==
    /\ traces_enabled
    /\ nstarts = MaxStarts
    /\ DOMAIN active_flows = {}
    /\ monitor_flows = <<>>
    /\ Len(agent_flows) = agent_flows_limit
    /\ agent_flows[1].trace_id = <<"strands", <<"uuid", 2, 0>>>>
    /\ agent_flows[2].trace_id = <<"strands", <<"uuid", 3, 0>>>>
    /\ Len(traces) = traces_limit

(* C2: no flow id is in the active table and in a completed sequence at      *)
(* once, in both completed sequences, or twice in one completed sequence.    *)
C2_ExactlyOnePlace ==
    /\ (DOMAIN active_flows) \cap (IdsOf(agent_flows) \cup IdsOf(monitor_flows)) = {}
    /\ IdsOf(agent_flows) \cap IdsOf(monitor_flows) = {}
    /\ NoDuplicateIds(agent_flows)
    /\ NoDuplicateIds(monitor_flows)

(* C3: an end_agent_flow or end_monitor_flow on an id that is not in the     *)
(* active table returns None and leaves the active table, both completed     *)
(* sequences, the trace archive and the value of get_flow_metrics unchanged. *)
C3_UnknownEndStep ==
    \A flow_id \in CallIds :
        UnknownEndStep(flow_id) =>
            /\ ret' = None
            /\ active_flows' = active_flows
            /\ agent_flows' = agent_flows
            /\ monitor_flows' = monitor_flows
            /\ traces' = traces
            /\ FlowMetrics' = FlowMetrics

C3_UnknownEndIsNoOp == [][C3_UnknownEndStep]_vars

(* The last call returned None on a ledger that holds an active flow, a      *)
(* completed flow and a trace.                                               *)
C3_Witness ==
    /\ ret = None
    /\ DOMAIN active_flows # {}
    /\ agent_flows # <<>>
    /\ monitor_flows # <<>>
    /\ traces # <<>>

(* C4: an end_* on an active flow appends exactly one trace (evicting the    *)
(* oldest of a full archive), with tracing enabled or not, and the trace     *)
(* carries the flow's trace_id, id, start time, end time and duration; in    *)
(* every other step the trace archive stays as it is.                        *)
C4_TraceStep ==
    /\ \A flow_id \in CallIds :
          AgentEndStep(flow_id) \/ MonitorEndStep(flow_id) =>
              /\ traces' # <<>>
              /\ traces' = LastN(traces \o <<Last(traces')>>, traces_limit)
              /\ Last(traces').trace_id = active_flows[flow_id].trace_id
              /\ Last(traces').flow_id = flow_id
              /\ Last(traces').startTime = active_flows[flow_id].startTime
              /\ Last(traces').endTime = IsoFormat(now)
              /\ Last(traces').endTime = Val(Val(ret').endTime)
              /\ Last(traces').duration = Val(Val(ret').duration)
    /\ ~SomeFlowEnds => traces' = traces

C4_OneTracePerEnd == [][C4_TraceStep]_vars

(* Tracing is off, three flows have ended and the archive is full. *)
C4_Witness ==
    /\ ~traces_enabled
    /\ nstarts = MaxStarts
    /\ DOMAIN active_flows = {}
    /\ Len(traces) = traces_limit
    /\ Last(traces).trace_id[1] = "mock-trace"

(* C5: an end_* with explicit tokens and tools on an active flow records     *)
(* exactly the supplied values, whatever update_tokens and add_tool_call     *)
(* accumulated, and status completed when success is true.                   *)
C5_Recorded(flow, a) ==
    /\ flow.tokens = Val(a.tokens)
    /\ flow.tools = Val(a.tools)
    /\ a.success => flow.status = "completed"

C5_EndStep ==
    \A flow_id \in DOMAIN active_flows, a \in EndArgs :
        (a.tokens # None /\ a.tools # None /\ flow_id \notin DOMAIN active_flows') =>
            /\ end_agent_flow(flow_id, a) =>
                  /\ agent_flows' # <<>>
                  /\ C5_Recorded(Last(agent_flows'), a)
                  /\ ret' = Some(Last(agent_flows'))
            /\ end_monitor_flow(flow_id, a) =>
                  /\ monitor_flows' # <<>>
                  /\ C5_Recorded(Last(monitor_flows'), a)
                  /\ ret' = Some(Last(monitor_flows'))

C5_FinalValuesReplace == [][C5_EndStep]_vars

(* A completed agent flow holds the supplied tokens {5000, 200} and the one  *)
(* supplied tool call.                                                       *)
C5_Witness ==
    /\ agent_flows # <<>>
    /\ agent_flows[1].status = "completed"
    /\ agent_flows[1].tokens = [input |-> 5000, output |-> 200]
    /\ agent_flows[1].tools = <<ToolTimed>>

(* C6: an end_* that returns the flow has removed it from the active table;  *)
(* an end_* on the id of a completed flow that is not active returns None    *)
(* and adds no completed record and no trace; and a step changes a completed *)
(* sequence only by leaving records out or, when a flow ends, by adding one  *)
(* record at the end, so no record of it is ever altered.                    *)
C6_OnlyDropsOrAppends(old, new) ==
    \/ IsSubsequence(new, old)
    \/ SomeFlowEnds /\ new # <<>> /\ IsSubsequence(Front(new), old)

C6_Step ==
    /\ \A flow_id \in DOMAIN active_flows :
          (ret' # None /\ \E a \in EndArgs :
                end_agent_flow(flow_id, a) \/ end_monitor_flow(flow_id, a))
          => /\ flow_id \notin DOMAIN active_flows'
             /\ Val(ret').status \in {"completed", "error", "timeout"}
             /\ Val(ret').endTime # None
             /\ Val(ret').duration # None
    /\ \A flow_id \in IdsOf(agent_flows) \cup IdsOf(monitor_flows) :
          UnknownEndStep(flow_id) =>
              /\ ret' = None
              /\ agent_flows' = agent_flows
              /\ monitor_flows' = monitor_flows
              /\ traces' = traces
    /\ C6_OnlyDropsOrAppends(agent_flows, agent_flows')
    /\ C6_OnlyDropsOrAppends(monitor_flows, monitor_flows')

C6_TerminalIsFinal == [][C6_Step]_vars

(* One flow was started and ended, a later call returned None, and the       *)
(* ledger holds one completed record and one trace.                          *)
C6_Witness ==
    /\ nstarts = 1
    /\ DOMAIN active_flows = {}
    /\ ret = None
    /\ Len(agent_flows) = 1
    /\ monitor_flows = <<>>
    /\ Len(traces) = 1

(* C7: the duration of every completed flow is its end time minus its start  *)
(* time in whole milliseconds, and is not negative.                          *)
C7_DurationOf(flow) ==
    /\ flow.endTime # None
    /\ flow.duration # None
    /\ Val(flow.duration) >= 0
    /\ Val(flow.duration) = (FromIso(Val(flow.endTime)) - FromIso(flow.startTime)) \div UnitsPerMs

C7_DurationExact ==
    /\ \A i \in 1..Len(agent_flows) : C7_DurationOf(agent_flows[i])
    /\ \A i \in 1..Len(monitor_flows) : C7_DurationOf(monitor_flows[i])

(* C8: the span list of every archived trace starts at the flow's start      *)
(* time, ends at the flow's end time, and each span starts where the         *)
(* previous one ended.                                                       *)
C8_Covers(trace) ==
    /\ Len(trace.spans) >= 1
    /\ trace.spans[1].start_time = trace.startTime
    /\ Last(trace.spans).end_time = trace.endTime
    /\ \A k \in 2..Len(trace.spans) :
          trace.spans[k].start_time = trace.spans[k - 1].end_time

C8_SpansContiguous ==
    /\ \A i \in 1..Len(traces) : C8_Covers(traces[i])
    /\ \A i \in 1..Len(agent_flows) : \A j \in 1..Len(traces) :
          traces[j].trace_id = agent_flows[i].trace_id =>
              /\ traces[j].startTime = agent_flows[i].startTime
              /\ traces[j].endTime = Val(agent_flows[i].endTime)
    /\ \A i \in 1..Len(monitor_flows) : \A j \in 1..Len(traces) :
          traces[j].trace_id = monitor_flows[i].trace_id =>
              /\ traces[j].startTime = monitor_flows[i].startTime
              /\ traces[j].endTime = Val(monitor_flows[i].endTime)

(* The trace of a flow that took 1.001 s and ended with two tool calls. *)
C8_Witness ==
    /\ traces # <<>>
    /\ traces[1].duration = 1000
    /\ Len(traces[1].spans) = 6

(* C9: in every archived trace every span has start_time <= end_time and     *)
(* lies inside the flow's interval [start time, end time].                   *)
C9_Inside(trace) ==
    \A k \in 1..Len(trace.spans) :
        /\ FromIso(trace.spans[k].start_time) <= FromIso(trace.spans[k].end_time)
        /\ FromIso(trace.startTime) <= FromIso(trace.spans[k].start_time)
        /\ FromIso(trace.spans[k].end_time) <= FromIso(trace.endTime)

C9_SpansInsideFlow == \A i \in 1..Len(traces) : C9_Inside(traces[i])

(* C10: a start_* returns a flow that is running, has tokens {0, 0}, no tool *)
(* calls, no end time, no duration and a trace_id, and that flow is the      *)
(* entry of its id in the active table, whether tracing is off, the trace    *)
(* creation raises or it succeeds; the end_* of the flow then archives a     *)
(* trace with that trace_id and synthesized spans.                           *)
C10_Step ==
    /\ nstarts' = nstarts + 1 =>
          /\ ret' # None
          /\ Val(ret').status = "running"
          /\ Val(ret').tokens = [input |-> 0, output |-> 0]
          /\ Val(ret').tools = <<>>
          /\ Val(ret').endTime = None
          /\ Val(ret').duration = None
          /\ Val(ret').trace_id # None
          /\ Val(ret').id \in DOMAIN active_flows'
          /\ active_flows'[Val(ret').id] = Val(ret')
    /\ \A flow_id \in DOMAIN active_flows :
          flow_id \notin DOMAIN active_flows' =>
              /\ ret' # None
              /\ Val(ret').id = flow_id
              /\ traces' # <<>>
              /\ Last(traces').flow_id = flow_id
              /\ Last(traces').trace_id = active_flows[flow_id].trace_id
              /\ Len(Last(traces').spans) >= 4
              /\ Last(traces').spans[1].name = "initialization"
              /\ Last(Last(traces').spans).name = "completion"

C10_StartAlwaysYieldsFlow == [][C10_Step]_vars

(* Tracing is on, the trace creation of the flow raised, and the flow's      *)
(* end_* archived a trace under the substituted id.                          *)
C10_Witness ==
    /\ traces_enabled
    /\ traces # <<>>
    /\ traces[1].trace_id[1] = "mock-trace"
    /\ Len(traces[1].spans) >= 4

(* C11: an end_agent_flow on an active flow stores and returns status        *)
(* completed if success, else error; an end_monitor_flow stores and returns  *)
(* completed if success, else timeout when the supplied error text contains  *)
(* "timeout", else error, whatever the flow held before; every completed     *)
(* record has one of these three statuses and every active flow is running.  *)
C11_StatusSets ==
    /\ \A i \in 1..Len(agent_flows) :
          agent_flows[i].status \in {"completed", "error", "timeout"}
    /\ \A i \in 1..Len(monitor_flows) :
          monitor_flows[i].status \in {"completed", "error", "timeout"}
    /\ \A flow_id \in DOMAIN active_flows : active_flows[flow_id].status = "running"

C11_AgentStatus(a) == IF a.success THEN "completed" ELSE "error"

C11_MonitorStatus(a) ==
    IF a.success THEN "completed"
    ELSE IF a.error # None /\ Contains(Val(a.error), TimeoutText) THEN "timeout"
    ELSE "error"

C11_EndStep ==
    \A flow_id \in DOMAIN active_flows, a \in EndArgs :
        flow_id \notin DOMAIN active_flows' =>
            /\ end_agent_flow(flow_id, a) =>
                  /\ Val(ret').status = C11_AgentStatus(a)
                  /\ Last(agent_flows').status = C11_AgentStatus(a)
            /\ end_monitor_flow(flow_id, a) =>
                  /\ Val(ret').status = C11_MonitorStatus(a)
                  /\ Last(monitor_flows').status = C11_MonitorStatus(a)

C11_StatusFromArguments == [](C11_StatusSets) /\ [][C11_EndStep]_vars

(* A monitor flow ended without success and with the error text              *)
(* "op timeout" is stored with status timeout.                               *)
C11_Witness ==
    /\ monitor_flows # <<>>
    /\ monitor_flows[1].error = Some(ErrTimeout)
    /\ monitor_flows[1].status = "timeout"

(* C12: for every limit, get_agent_flows (get_monitor_flows) returns flows   *)
(* in descending order of start time, as many as the limit allows out of the *)
(* completed sequence of that kind and the active flows of that kind, none   *)
(* left out being newer than one returned, every running flow of the kind    *)
(* when the limit allows all, and no flow of the other kind.                 *)
C12_Descending(result) ==
    \A k \in 1..(Len(result) - 1) :
        ~IsoGreater(result[k + 1].startTime, result[k].startTime)

C12_Pool(completed, type) ==
    {completed[i] : i \in 1..Len(completed)}
        \cup {active_flows[flow_id] : flow_id \in ActiveOfType(type)}

C12_Newest(completed, type, result, n) ==
    /\ Len(result) = IF n <= Len(completed) + Cardinality(ActiveOfType(type))
                     THEN n ELSE Len(completed) + Cardinality(ActiveOfType(type))
    /\ \A k \in 1..Len(result) : result[k] \in C12_Pool(completed, type)
    /\ \A flow \in C12_Pool(completed, type) :
          \/ \E k \in 1..Len(result) : result[k] = flow
          \/ n = 0
          \/ result # <<>> /\ ~IsoGreater(flow.startTime, Last(result).startTime)

C12_OfKind(result, type) == \A k \in 1..Len(result) : result[k].type = type

C12_Query(completed, type) ==
    \A limit \in QueryLimits, order \in Orderings(ActiveOfType(type)) :
        LET result == QueryFlows(completed, order, limit)
            n == IF limit = None THEN DefaultQueryLimit ELSE Val(limit)
        IN  /\ C12_Descending(result)
            /\ C12_Newest(completed, type, result, n)
            /\ C12_OfKind(result, type)

C12_QueryReturnsKind ==
    /\ C12_Query(agent_flows, "agent_analysis")
    /\ C12_Query(monitor_flows, "background_monitor")

(* C13: no quotient of get_flow_metrics ever has divisor 0, and on a ledger  *)
(* with no completed flow (empty, holding only active flows, or emptied by   *)
(* clear_old_flows) its success_rate and average_duration are 0.             *)
C13_MetricsZeroCase ==
    /\ FlowMetrics.success_rate[2] # 0
    /\ FlowMetrics.average_duration[2] # 0
    /\ (agent_flows = <<>> /\ monitor_flows = <<>>) =>
          /\ FlowMetrics.success_rate[1] = 0
          /\ FlowMetrics.average_duration[1] = 0
          /\ FlowMetrics.completed_flows = 0

(* get_flow_metrics has answered on a ledger whose completed flows were all  *)
(* cleared while a flow is still active.                                     *)
C13_Witness ==
    /\ agent_flows = <<>>
    /\ monitor_flows = <<>>
    /\ traces # <<>>
    /\ DOMAIN active_flows # {}
    /\ ret = Some(FlowMetrics)

(* C14: in every state the metrics agree with the ledger: active_flows is    *)
(* the size of the active table, completed_flows is the number of records of *)
(* the two completed sequences and is agent_flows + monitor_flows,           *)
(* total_flows is completed_flows + active_flows, total_traces is the size   *)
(* of the trace archive, and success_rate is 100 times the records with      *)
(* status completed over completed_flows, between 0 and 100.                 *)
C14_Successful ==
    Cardinality({i \in 1..Len(agent_flows) : agent_flows[i].status = "completed"})
    + Cardinality({i \in 1..Len(monitor_flows) : monitor_flows[i].status = "completed"})

C14_MetricsConsistent ==
    LET m == FlowMetrics
    IN  /\ m.active_flows = Cardinality(DOMAIN active_flows)
        /\ m.completed_flows = Len(agent_flows) + Len(monitor_flows)
        /\ m.completed_flows = m.agent_flows + m.monitor_flows
        /\ m.total_flows = m.completed_flows + m.active_flows
        /\ m.total_traces = Len(traces)
        /\ m.success_rate[2] > 0
        /\ m.completed_flows > 0 =>
              m.success_rate[1] * m.completed_flows
                  = 100 * C14_Successful * m.success_rate[2]
        /\ 0 <= m.success_rate[1]
        /\ m.success_rate[1] <= 100 * m.success_rate[2]

(* get_flow_metrics has answered on a ledger with an active flow, a          *)
(* completed agent flow and a timed-out monitor flow: success_rate is 100/2. *)
C14_Witness ==
    /\ DOMAIN active_flows # {}
    /\ Len(agent_flows) = 1
    /\ agent_flows[1].status = "completed"
    /\ Len(monitor_flows) = 1
    /\ monitor_flows[1].status = "timeout"
    /\ ret = Some(FlowMetrics)
    /\ FlowMetrics.success_rate = <<100, 2>>

(* C15: a clear_old_flows(hours) leaves in each completed sequence exactly   *)
(* the flows that did not start before now - hours, in their order, within   *)
(* the capacity, and leaves the active table and the trace archive as they   *)
(* are.                                                                      *)
C15_NotOlder(flows, hours) ==
    SelectSeq(flows, LAMBDA f : FromIso(f.startTime) >= now - hours * UnitsPerHour)

C15_ClearStep ==
    \A hours \in ClearHours :
        clear_old_flows(hours) =>
            /\ agent_flows' = C15_NotOlder(agent_flows, hours)
            /\ monitor_flows' = C15_NotOlder(monitor_flows, hours)
            /\ Len(agent_flows') <= agent_flows_limit
            /\ Len(monitor_flows') <= monitor_flows_limit
            /\ active_flows' = active_flows
            /\ traces' = traces

C15_ClearRemovesOlder == [][C15_ClearStep]_vars

(* C16: an add_tool_call or update_tokens on an id that is not in the active *)
(* table, never started or already ended, leaves the active table, both      *)
(* completed sequences and the trace archive as they are.                    *)
C16_InactiveStep ==
    \A flow_id \in CallIds \cup IdsOf(agent_flows) \cup IdsOf(monitor_flows) :
        ( /\ flow_id \notin DOMAIN active_flows
          /\ \/ \E details \in ToolDetails : add_tool_call(flow_id, "execute_bash", details)
             \/ \E delta \in TokenDeltas : update_tokens(flow_id, delta[1], delta[2]) )
        => /\ active_flows' = active_flows
           /\ agent_flows' = agent_flows
           /\ monitor_flows' = monitor_flows
           /\ traces' = traces

C16_InactiveIsNoOp == [][C16_InactiveStep]_vars

(* A call returned nothing while the flow of a completed record is not       *)
(* active and another flow is; the record still holds its final tokens.      *)
C16_Witness ==
    /\ ret = None
    /\ agent_flows # <<>>
    /\ agent_flows[1].id \notin DOMAIN active_flows
    /\ agent_flows[1].tokens = FinalTokens
    /\ DOMAIN active_flows # {}
    /\ traces # <<>>

(* C17: in a flow-cost summary every flow record has input_cost =            *)
(* input_tokens / 1,000,000 x 0.25 dollars, output_cost = output_tokens /    *)
(* 1,000,000 x 1.25 dollars and cost = input_cost + output_cost; a flow with *)
(* 1,000,000 input and 1,000,000 output tokens costs 1.50 dollars; and       *)
(* total_cost is the sum of the costs of all flows costed.                   *)
(* 0.25 dollars are 1 quarter and 1.25 dollars are 5 quarters: the cost in   *)
(* quarter dollars per million tokens                                        *)
C17_Cost(input_tokens, output_tokens) == input_tokens * 1 + output_tokens * 5

RECURSIVE C17_Sum(_)
C17_Sum(flows) ==
    IF flows = <<>> THEN 0
    ELSE C17_Cost(Head(flows).tokens.input, Head(flows).tokens.output)
         + C17_Sum(Tail(flows))

C17_CostFormula ==
    ret # None =>
        LET summary == Val(ret)
        IN  /\ summary.total_cost = C17_Sum(cost_flows)
            /\ \A k \in 1..Len(summary.flows) :
                  LET r == summary.flows[k]
                  IN  /\ r.input_cost = C17_Cost(r.input_tokens, 0)
                      /\ r.output_cost = C17_Cost(0, r.output_tokens)
                      /\ r.cost = r.input_cost + r.output_cost
                      /\ (r.input_tokens = 1000000 /\ r.output_tokens = 1000000) =>
                            2 * r.cost = 3 * CostUnitsPerDollar

(* Three flows of 1,000,000 input and output tokens each were costed: 1.50   *)
(* dollars each, 4.50 dollars in total.                                      *)
C17_Witness ==
    /\ ret # None
    /\ Len(cost_flows) = 3
    /\ cost_flows[1].tokens = [input |-> 1000000, output |-> 1000000]
    /\ 2 * Val(ret).flows[1].cost = 3 * CostUnitsPerDollar
    /\ 2 * Val(ret).total_cost = 9 * CostUnitsPerDollar

(* C18: with the token counts of every flow doubled, the cost of every flow  *)
(* record and the total_cost of the summary are exactly twice what they are  *)
(* for the flows as recorded.                                                *)
C18_Doubled(flows) ==
    [k \in 1..Len(flows) |->
        [flows[k] EXCEPT !.tokens = [input |-> 2 * @.input, output |-> 2 * @.output]]]

C18_Linear ==
    ret # None =>
        \A flow_type \in {"agent", "monitor"} :
            LET once == Val(ret)
                twice == CalculateFlowCosts(C18_Doubled(cost_flows), flow_type)
            IN  /\ twice.total_cost = 2 * once.total_cost
                /\ Len(twice.flows) = Len(once.flows)
                /\ \A k \in 1..Len(once.flows) :
                      /\ twice.flows[k].id = once.flows[k].id
                      /\ twice.flows[k].cost = 2 * once.flows[k].cost
                      /\ twice.flows[k].input_tokens = 2 * once.flows[k].input_tokens

(* Eleven flows with token counts rising from {1000, 100} to {11000, 1100}   *)
(* were costed.                                                              *)
C18_Witness ==
    /\ ret # None
    /\ Len(cost_flows) = 11
    /\ cost_flows[1].tokens = [input |-> 11000, output |-> 1100]
    /\ Val(ret).total_cost = 66 * 1500

(* C19: when more than 10 flows are costed, the detail list of the summary   *)
(* holds the cost records of 10 flows and no flow left out of it started     *)
(* later than a flow in it.                                                  *)
C19_DetailIds == {Val(ret).flows[k].id : k \in 1..Len(Val(ret).flows)}

C19_DetailIsMostRecent ==
    (ret # None /\ Len(cost_flows) > 10) =>
        /\ Cardinality(C19_DetailIds) = 10
        /\ \A i, j \in 1..Len(cost_flows) :
              (cost_flows[i].id \in C19_DetailIds /\ cost_flows[j].id \notin C19_DetailIds)
              => ~IsoGreater(cost_flows[j].startTime, cost_flows[i].startTime)

(* C20: in the cost breakdown of the flows the two queries return, a flow    *)
(* with recorded token counts is costed with them and a flow without, one    *)
(* still running or ended without a tokens argument, is costed with 50,000   *)
(* input and 2,000 output tokens if it is an analysis flow and with 30,000   *)
(* and 1,500 if it is a monitor flow.  (No update_tokens is made in this     *)
(* specification: a flow has no recorded tokens exactly when it holds        *)
(* {0, 0}.)                                                                  *)
C20_Costed(flows, summary, estimated_input, estimated_output) ==
    /\ Len(summary.flows) = Len(flows)
    /\ \A k \in 1..Len(flows) :
          IF flows[k].tokens = [input |-> 0, output |-> 0]
          THEN /\ summary.flows[k].input_tokens = estimated_input
               /\ summary.flows[k].output_tokens = estimated_output
          ELSE /\ summary.flows[k].input_tokens = flows[k].tokens.input
               /\ summary.flows[k].output_tokens = flows[k].tokens.output

C20_DefaultsForUnrecorded ==
    \A agent_order \in Orderings(ActiveOfType("agent_analysis")),
       monitor_order \in Orderings(ActiveOfType("background_monitor")) :
        LET agent_list == QueryFlows(agent_flows, agent_order, None)
            monitor_list == QueryFlows(monitor_flows, monitor_order, None)
            breakdown == CalculateCostBreakdown(agent_list, monitor_list)
        IN  /\ C20_Costed(agent_list, breakdown.agent_analysis, 50000, 2000)
            /\ C20_Costed(monitor_list, breakdown.background_monitoring, 30000, 1500)

(* ret holds a session cost report *)
IsReport == ret # None /\ "projections" \in DOMAIN Val(ret)

(* C21: in every report, cost_without_rotation is the cost of 300,000 input  *)
(* tokens times 200 (15 dollars), cost_with_rotation is the total cost of    *)
(* the breakdown, and savings_percentage is                                  *)
(* (cost_without_rotation - cost_with_rotation) / cost_without_rotation x    *)
(* 100 for these two values.                                                 *)
C21_Savings == Val(ret).projections.session_rotation_savings

C21_SavingsOfReportedCosts ==
    IsReport =>
        /\ C21_Savings.cost_without_rotation = <<15, 1>>
        /\ C21_Savings.cost_with_rotation = Dollars(Val(ret).cost_breakdown.totals.total_cost)
        /\ Product(C21_Savings.savings_percentage, C21_Savings.cost_without_rotation)
              = Times(Minus(C21_Savings.cost_without_rotation,
                            C21_Savings.cost_with_rotation), 100)

(* C22: in every report the monthly background_monitoring, agent_analysis    *)
(* and total_estimated are 30 times the daily ones, the daily                *)
(* background_monitoring is the average cost per monitor flow times 288 and  *)
(* the hourly one is that average times 12.                                  *)
C22_Projections == Val(ret).projections

C22_MonitorAverage ==
    AverageDollars(Val(ret).cost_breakdown.background_monitoring.average_cost_per_flow)

C22_MonthlyIsThirtyDays ==
    IsReport =>
        /\ C22_Projections.monthly.background_monitoring
              = Times(C22_Projections.daily.background_monitoring, 30)
        /\ C22_Projections.monthly.agent_analysis
              = Times(C22_Projections.daily.agent_analysis, 30)
        /\ C22_Projections.monthly.total_estimated
              = Times(C22_Projections.daily.total_estimated, 30)
        /\ C22_Projections.daily.background_monitoring = Times(C22_MonitorAverage, 288)
        /\ C22_Projections.hourly.background_monitoring = Times(C22_MonitorAverage, 12)

(* A report on MaxCostFlows monitor flows of rising cost and some agent      *)
(* flows, with monthly estimates above zero.                                 *)
C22_Witness ==
    /\ IsReport
    /\ Val(ret).cost_breakdown.background_monitoring.flow_count = MaxCostFlows
    /\ Val(ret).cost_breakdown.agent_analysis.flow_count > 0
    /\ C22_Projections.monthly.background_monitoring[1] > 0
    /\ C22_Projections.monthly.agent_analysis[1] > 0
    /\ C22_Projections.daily.background_monitoring # C22_Projections.daily.agent_analysis

(* C23: no computation of the cost model divides by zero.  The summary of an *)
(* empty flow list has flow_count 0, token totals 0, total_cost 0 and        *)
(* average_cost_per_flow 0; the breakdown of no agent and no monitor flows   *)
(* has total_cost 0 and average_cost_per_request 0; and every report is      *)
(* produced, with its projections and recommendations, never the error       *)
(* record.                                                                   *)
C23_IsSummary == ret # None /\ "flow_count" \in DOMAIN Val(ret)

C23_ZeroSummary(summary) ==
    /\ summary.flow_count = 0
    /\ summary.total_input_tokens = 0
    /\ summary.total_output_tokens = 0
    /\ summary.total_cost = 0
    /\ summary.average_cost_per_flow = <<0, 1>>

C23_Defined(amounts) == \A field \in DOMAIN amounts : amounts[field][2] # 0

C23_NoDivisionByZero ==
    /\ ret # None => "error" \notin DOMAIN Val(ret)
    /\ C23_IsSummary =>
          /\ Val(ret).average_cost_per_flow[2] # 0
          /\ cost_flows = <<>> => C23_ZeroSummary(Val(ret))
    /\ IsReport =>
          LET breakdown == Val(ret).cost_breakdown
              projections == Val(ret).projections
          IN  /\ breakdown.agent_analysis.average_cost_per_flow[2] # 0
              /\ breakdown.background_monitoring.average_cost_per_flow[2] # 0
              /\ breakdown.totals.average_cost_per_request[2] # 0
              /\ C23_Defined(projections.hourly)
              /\ C23_Defined(projections.daily)
              /\ C23_Defined(projections.monthly)
              /\ C23_Defined(projections.session_rotation_savings)
              /\ Len(Val(ret).optimization_recommendations) >= 3
              /\ (breakdown.agent_analysis.flow_count = 0
                    /\ breakdown.background_monitoring.flow_count = 0) =>
                    /\ C23_ZeroSummary(breakdown.agent_analysis)
                    /\ C23_ZeroSummary(breakdown.background_monitoring)
                    /\ breakdown.totals.total_cost = 0
                    /\ breakdown.totals.average_cost_per_request = <<0, 1>>
                    /\ projections.monthly.total_estimated = <<0, 1>>
                    /\ Len(Val(ret).optimization_recommendations) = 3

(* A report was produced from no agent flow and no monitor flow. *)
C23_Witness ==
    /\ IsReport
    /\ cost_flows = <<>>
    /\ monitor = MonitorInit
    /\ requests = RequestsInit
    /\ Val(ret).cost_breakdown.agent_analysis.flow_count = 0
    /\ Val(ret).cost_breakdown.background_monitoring.flow_count = 0

(* C24: a get_session_costs step leaves the active table, the two completed  *)
(* sequences and the trace archive as they were, every record of them        *)
(* included.                                                                 *)
C24_ReportStep ==
    (ret' # None /\ "projections" \in DOMAIN Val(ret') /\ get_session_costs) =>
        /\ active_flows' = active_flows
        /\ agent_flows' = agent_flows
        /\ monitor_flows' = monitor_flows
        /\ traces' = traces

C24_ReportLeavesLedger == [][C24_ReportStep]_vars

(* A report was produced on a ledger holding an active flow, completed flows *)
(* of both kinds and traces.                                                 *)
C24_Witness ==
    /\ IsReport
    /\ DOMAIN active_flows # {}
    /\ agent_flows # <<>>
    /\ monitor_flows # <<>>
    /\ traces # <<>>
    /\ Val(ret).cost_breakdown.agent_analysis.flow_count > 0

(* C25: with the monitoring loop as the only caller of start_monitor_flow,   *)
(* at most one background_monitor flow is in the active table in every       *)
(* state, and none is when the loop is about to start a cycle: the flow of   *)
(* a cycle was ended before, whatever the outcome of the cycle.              *)
C25_ActiveMonitorFlows ==
    {f \in DOMAIN active_flows : active_flows[f].type = "background_monitor"}

C25_OneMonitorFlowInFlight ==
    /\ Cardinality(C25_ActiveMonitorFlows) <= 1
    /\ monitor.pc = "loop" => C25_ActiveMonitorFlows = {}

(* C26: two analyze_cluster calls whose flows are in flight at the same time *)
(* have different flow ids; the start_agent_flow of a call never replaces an *)
(* active entry; and the end_agent_flow of a call returns the flow of the    *)
(* call, never None.                                                         *)
C26_InFlight == {c \in Callers : requests[c].pc = "running"}

C26_DistinctIds ==
    \A c, d \in C26_InFlight : c # d => requests[c].flow_id # requests[d].flow_id

C26_CallStep ==
    \A c \in Callers :
        /\ (requests[c].pc = "idle" /\ requests'[c].pc = "running")
              => Val(requests'[c].flow_id) \notin DOMAIN active_flows
        /\ (requests[c].pc = "running" /\ requests'[c].pc = "done")
              => /\ ret' # None
                 /\ Val(ret').id = Val(requests[c].flow_id)

C26_RequestsHaveOwnFlows == [](C26_DistinctIds) /\ [][C26_CallStep]_vars

(* C27: a flow that is in the active table stays there with status running   *)
(* through every step that is not an end_* call on its id (clear_old_flows   *)
(* at any age, the end of another flow, an eviction from a completed         *)
(* sequence, a start, a query); it is counted in the active_flows of the     *)
(* metrics; and get_agent_flows / get_monitor_flows return it, for every     *)
(* limit of 1 or more.                                                       *)
C27_EndOf(flow_id) ==
    \E a \in {EndOk, EndPlain} : end_agent_flow(flow_id, a) \/ end_monitor_flow(flow_id, a)

C27_StaysStep ==
    \A flow_id \in DOMAIN active_flows :
        \/ /\ flow_id \in DOMAIN active_flows'
           /\ active_flows'[flow_id].status = "running"
           /\ active_flows'[flow_id].startTime = active_flows[flow_id].startTime
        \/ C27_EndOf(flow_id)

C27_Counted ==
    /\ FlowMetrics.active_flows = Cardinality(DOMAIN active_flows)
    /\ \A flow_id \in DOMAIN active_flows : active_flows[flow_id].status = "running"

(* every query of the kind with a limit of 1 or more returns the active      *)
(* flows                                                                     *)
C27_Returned(completed, type) ==
    \A limit \in QueryLimits \ {Some(0)}, order \in Orderings(ActiveOfType(type)) :
        \A flow_id \in ActiveOfType(type) :
            \E k \in 1..Len(QueryFlows(completed, order, limit)) :
                QueryFlows(completed, order, limit)[k] = active_flows[flow_id]

C27_AbandonedStaysAndIsReturned ==
    /\ [](C27_Counted)
    /\ [](C27_Returned(agent_flows, "agent_analysis")
           /\ C27_Returned(monitor_flows, "background_monitor"))
    /\ [][C27_StaysStep]_vars

(* C27, amended: as above, but a query returns the active flows of its kind  *)
(* if its limit is at least the number of flows it draws from (the completed *)
(* sequence and the active flows of the kind); a smaller limit may cut them. *)
C27_ReturnedWithinLimit(completed, type) ==
    \A limit \in QueryLimits, order \in Orderings(ActiveOfType(type)) :
        LET n == IF limit = None THEN DefaultQueryLimit ELSE Val(limit)
        IN  n >= Len(completed) + Cardinality(ActiveOfType(type)) =>
              \A flow_id \in ActiveOfType(type) :
                  \E k \in 1..Len(QueryFlows(completed, order, limit)) :
                      QueryFlows(completed, order, limit)[k] = active_flows[flow_id]

C27_AbandonedStays ==
    /\ [](C27_Counted)
    /\ [](C27_ReturnedWithinLimit(agent_flows, "agent_analysis")
           /\ C27_ReturnedWithinLimit(monitor_flows, "background_monitor"))
    /\ [][C27_StaysStep]_vars

(* A query has returned a flow that is still running, started more than two  *)
(* seconds ago, after a later flow was started and ended and the completed   *)
(* flows were cleared.                                                       *)
C27_Witness ==
    /\ ret # None
    /\ "flows" \in DOMAIN Val(ret)
    /\ nticks = MaxFlowTicks
    /\ agent_flows = <<>>
    /\ traces # <<>>
    /\ AgentId1 \in DOMAIN active_flows
    /\ FromIso(active_flows[AgentId1].startTime) < now - Ms(2000)
    /\ \E k \in 1..Len(Val(ret).flows) : Val(ret).flows[k] = active_flows[AgentId1]

(* C28: a start_agent_flow on an id that is active replaces the entry: the   *)
(* table holds one entry for the id, the new flow the call returns, with the *)
(* start time of the call, tokens {0, 0} and no tool calls, and the          *)
(* completed sequences and traces are as before.  An end_agent_flow on the   *)
(* id then adds exactly one completed record and one trace and removes the   *)
(* entry, and an end_agent_flow on the id while it is not active returns     *)
(* None and changes nothing.                                                 *)
C28_RestartStep ==
    (AgentId1 \in DOMAIN active_flows /\ start_agent_flow(AgentId1, "id")) =>
        /\ DOMAIN active_flows' = DOMAIN active_flows
        /\ ret' = Some(active_flows'[AgentId1])
        /\ active_flows'[AgentId1].status = "running"
        /\ active_flows'[AgentId1].startTime = IsoFormat(now)
        /\ active_flows'[AgentId1].tokens = [input |-> 0, output |-> 0]
        /\ active_flows'[AgentId1].tools = <<>>
        /\ agent_flows' = agent_flows
        /\ monitor_flows' = monitor_flows
        /\ traces' = traces

C28_EndStep ==
    \A a \in {EndOk, EndPlain} :
        end_agent_flow(AgentId1, a) =>
            IF AgentId1 \in DOMAIN active_flows
            THEN /\ AgentId1 \notin DOMAIN active_flows'
                 /\ ret' # None
                 /\ Val(ret').startTime = active_flows[AgentId1].startTime
                 /\ agent_flows' = LastN(Append(agent_flows, Val(ret')), agent_flows_limit)
                 /\ Len(traces') = Min(Len(traces) + 1, traces_limit)
                 /\ Last(traces').flow_id = AgentId1
                 /\ Front(traces') = LastN(traces, traces_limit - 1)
            ELSE /\ ret' = None
                 /\ active_flows' = active_flows
                 /\ agent_flows' = agent_flows
                 /\ traces' = traces

C28_RestartOverwrites == [][C28_RestartStep /\ C28_EndStep]_vars

(* The id was started twice, the second time after the clock advanced, and   *)
(* ended once without tokens: one completed record, which starts after the   *)
(* first start and holds no tokens and no tool calls, and one trace; the     *)
(* last call returned None.                                                  *)
C28_Witness ==
    /\ nstarts = 2
    /\ nticks >= 1
    /\ DOMAIN active_flows = {}
    /\ Len(agent_flows) = 1
    /\ Len(traces) = 1
    /\ agent_flows[1].tokens = [input |-> 0, output |-> 0]
    /\ agent_flows[1].tools = <<>>
    /\ FromIso(agent_flows[1].startTime) > UnitsPerHour
    /\ ret = None

(* C29: the flow id a start_monitor_flow call returns is the id of no flow   *)
(* started by an earlier start_monitor_flow call, whether that flow is       *)
(* still active or completed, also when the cycle number is one used before  *)
(* and the call is made in the same clock second: the call adds an entry to  *)
(* the active table and replaces none.                                       *)
C29_StartStep ==
    \A cycle \in 1..(2 * MaxCycles + 1) :
        start_monitor_flow(cycle, "id") =>
            /\ Val(ret').id \notin DOMAIN active_flows
            /\ Val(ret').id \notin IdsOf(monitor_flows) \cup IdsOf(agent_flows)
            /\ DOMAIN active_flows' = DOMAIN active_flows \cup {Val(ret').id}

C29_MonitorIdsUnique == [][C29_StartStep]_vars

(* get_trace_by_id: the first archived trace with this trace_id, or None *)
RECURSIVE get_trace_by_id(_, _)
get_trace_by_id(archive, trace_id) ==
    IF archive = <<>> THEN None
    ELSE IF Head(archive).trace_id = trace_id THEN Some(Head(archive))
    ELSE get_trace_by_id(Tail(archive), trace_id)

(* C30: in every state, for every flow of a completed sequence               *)
(* get_trace_by_id(flow.trace_id) returns a trace with the flow's id, start  *)
(* time, end time and duration, and no two archived traces have the same     *)
(* trace_id.                                                                 *)
C30_Correlated(flow) ==
    LET found == get_trace_by_id(traces, flow.trace_id)
    IN  /\ found # None
        /\ Val(found).flow_id = flow.id
        /\ Val(found).startTime = flow.startTime
        /\ Val(found).endTime = Val(flow.endTime)
        /\ Val(found).duration = Val(flow.duration)

C30_UniqueTraceIds ==
    \A i, j \in 1..Len(traces) : i # j => traces[i].trace_id # traces[j].trace_id

C30_TraceCorrelation ==
    /\ \A k \in 1..Len(agent_flows) : C30_Correlated(agent_flows[k])
    /\ \A k \in 1..Len(monitor_flows) : C30_Correlated(monitor_flows[k])
    /\ C30_UniqueTraceIds

(* C31: in every state, every record of the two completed sequences whose    *)
(* status is completed has no error text.                                     *)
C31_CompletedHasNoError ==
    /\ \A k \in 1..Len(agent_flows) :
          agent_flows[k].status = "completed" => agent_flows[k].error = None
    /\ \A k \in 1..Len(monitor_flows) :
          monitor_flows[k].status = "completed" => monitor_flows[k].error = None

(* C32: when an end_* call completes an active flow with duration D and      *)
(* final tool-call list t1..tn, the spans of the trace it archives are, in   *)
(* this order, initialization (500 ms), llm_execution (max(D - 2000, 5000)   *)
(* ms), one tool span per tool call in list order (that call's duration,     *)
(* 1000 ms if it has none), response_processing (300 ms) and completion: n + *)
(* 4 spans, as many tool spans as the completed record has tool calls, and   *)
(* no negative span duration.                                                *)
C32_IsToolSpan(span, tool) ==
    /\ span.name = "tool_execution"
    /\ span.tool_name = tool.name
    /\ span.duration = (IF tool.duration = None THEN 1000 ELSE Val(tool.duration))

C32_Shape(spans, flow) ==
    LET n == Len(flow.tools)
        D == Val(flow.duration)
    IN  /\ Len(spans) = n + 4
        /\ spans[1].name = "initialization" /\ spans[1].duration = 500
        /\ spans[2].name = "llm_execution"
        /\ spans[2].duration = (IF D - 2000 >= 5000 THEN D - 2000 ELSE 5000)
        /\ \A i \in 1..n : C32_IsToolSpan(spans[2 + i], flow.tools[i])
        /\ spans[n + 3].name = "response_processing" /\ spans[n + 3].duration = 300
        /\ spans[n + 4].name = "completion"
        /\ Cardinality({k \in 1..Len(spans) : spans[k].name = "tool_execution"}) = n
        /\ \A k \in 1..Len(spans) : spans[k].duration >= 0

C32_EndStep ==
    \A flow_id \in DOMAIN active_flows, a \in EndArgs :
        (flow_id \notin DOMAIN active_flows'
         /\ (end_agent_flow(flow_id, a) \/ end_monitor_flow(flow_id, a))) =>
            /\ traces' # <<>>
            /\ Last(traces').flow_id = flow_id
            /\ C32_Shape(Last(traces').spans, Val(ret'))

C32_SpanList == [][C32_EndStep]_vars

(* The trace of a flow that took an hour and 1.5 ms and ended with the two   *)
(* tool calls of 2000 ms and of no duration: six spans, the llm span of      *)
(* 3,598,000 ms, the tool spans of 2000 ms and 1000 ms.                      *)
C32_Witness ==
    /\ traces # <<>>
    /\ Len(Last(traces).spans) = 6
    /\ Last(traces).duration = 3600000
    /\ Last(traces).spans[2].duration = 3598000
    /\ Last(traces).spans[3].duration = 2000
    /\ Last(traces).spans[4].duration = 1000
    /\ Last(traces).spans[5].name = "response_processing"

(* C33: update_tokens on an active flow raises exactly that flow's input and *)
(* output counters by the two deltas, so the counters are the sums of the    *)
(* deltas of the updates made, whatever their order; add_tool_call on an     *)
(* active flow appends exactly one record at the end of exactly that flow's  *)
(* tool-call sequence; and both leave every other active flow, both          *)
(* completed sequences and the trace archive unchanged.                      *)
C33_OthersUnchanged(flow_id) ==
    /\ DOMAIN active_flows' = DOMAIN active_flows
    /\ \A other \in DOMAIN active_flows \ {flow_id} : active_flows'[other] = active_flows[other]
    /\ agent_flows' = agent_flows
    /\ monitor_flows' = monitor_flows
    /\ traces' = traces

C33_UpdateStep ==
    \A flow_id \in DOMAIN active_flows, delta \in TokenDeltas :
        (ret' = None /\ update_tokens(flow_id, delta[1], delta[2])) =>
            /\ active_flows'[flow_id].tokens.input = active_flows[flow_id].tokens.input + delta[1]
            /\ active_flows'[flow_id].tokens.output = active_flows[flow_id].tokens.output + delta[2]
            /\ active_flows'[flow_id].tools = active_flows[flow_id].tools
            /\ active_flows'[flow_id].status = "running"
            /\ C33_OthersUnchanged(flow_id)

C33_ToolStep ==
    \A flow_id \in DOMAIN active_flows, details \in ToolDetails :
        (ret' = None /\ add_tool_call(flow_id, "execute_bash", details)) =>
            /\ Len(active_flows'[flow_id].tools) = Len(active_flows[flow_id].tools) + 1
            /\ Front(active_flows'[flow_id].tools) = active_flows[flow_id].tools
            /\ Last(active_flows'[flow_id].tools).name = "execute_bash"
            /\ active_flows'[flow_id].tokens = active_flows[flow_id].tokens
            /\ active_flows'[flow_id].status = "running"
            /\ C33_OthersUnchanged(flow_id)

(* the counters of an active flow are sums of the deltas 100 and 50 *)
C33_SumsOfDeltas ==
    \A flow_id \in DOMAIN active_flows :
        \E i, j \in 0..MaxTokenUpdates :
            /\ i + j <= MaxTokenUpdates
            /\ active_flows[flow_id].tokens = [input |-> 100 * i, output |-> 50 * j]

C34_Ended(flow_id, a, own, own_before, other, other_before) ==
    /\ DOMAIN active_flows' = DOMAIN active_flows \ {flow_id}
    /\ \A f \in DOMAIN active_flows' : active_flows'[f] = active_flows[f]
    /\ other = other_before
    /\ own # <<>>
    /\ Last(own).id = flow_id
    /\ Last(own).tokens = (IF a.tokens = None THEN [input |-> 0, output |-> 0] ELSE Val(a.tokens))
    /\ Last(own).tools = (IF a.tools = None THEN <<>> ELSE Val(a.tools))
    /\ \/ Front(own) = own_before
       \/ Front(own) = Tail(own_before)
    /\ traces' # <<>>
    /\ Last(traces').flow_id = flow_id
    /\ \/ Front(traces') = traces
       \/ Front(traces') = Tail(traces)

C34_EndStep ==
    /\ \A caller \in Callers, a \in AnalyzeEndArgs :
          (requests[caller].pc = "running" /\ AnalyzeEnd(caller, a)) =>
              C34_Ended(Val(requests[caller].flow_id), a,
                        agent_flows', agent_flows, monitor_flows', monitor_flows)
    /\ (monitor.pc = "analysis" /\ MonitorResponse) =>
          C34_Ended(Val(monitor.flow_id), MonitorSuccessArgs(monitor.analysis_cycles + 1),
                    monitor_flows', monitor_flows, agent_flows', agent_flows)
    /\ \A error \in AnalysisErrors :
          (monitor.pc = "analysis" /\ MonitorAnalysisRaises(error, FALSE)) =>
              C34_Ended(Val(monitor.flow_id), MonitorErrorArgs(error),
                        monitor_flows', monitor_flows, agent_flows', agent_flows)

C34_OneRecordEach ==
    LET completed == agent_flows \o monitor_flows
    IN  /\ \A i, j \in 1..Len(completed) : completed[i].id = completed[j].id => i = j
        /\ \A i, j \in 1..Len(traces) : traces[i].flow_id = traces[j].flow_id => i = j
        /\ \A i \in 1..Len(completed) : completed[i].id \notin DOMAIN active_flows

C34_EndsAreIndependent ==
    /\ [](C34_OneRecordEach)
    /\ [][C34_EndStep]_vars

(* The first request has ended and left its record and its trace while the   *)
(* second request and a monitoring cycle are still running.                  *)
C34_Witness ==
    /\ requests[1].pc = "done"
    /\ requests[2].pc = "running"
    /\ monitor.pc = "analysis"
    /\ DOMAIN active_flows = {Val(requests[2].flow_id), Val(monitor.flow_id)}
    /\ \E k \in 1..Len(agent_flows) : agent_flows[k].id = Val(requests[1].flow_id)
    /\ \E k \in 1..Len(traces) : traces[k].flow_id = Val(requests[1].flow_id)

(* C35: an analyze_cluster call that has started its agent flow makes        *)
(* exactly one end_agent_flow call on its flow id, in the step in which it   *)
(* returns, on each of its return paths; when it has returned, the flow id   *)
(* is in the completed agent sequence and not in the active table.           *)
C35_ReturnArgs ==
    {AnalyzeSuccessArgs, AnalyzeErrorArgs(ErrBoom), AnalyzeErrorArgs(ErrTimedOut)}

C35_Returns(caller) ==
    requests[caller].pc \in {"running", "analysis"} /\ requests'[caller].pc = "done"

C35_CallStep ==
    \A caller \in Callers :
        /\ C35_Returns(caller) =>
              LET flow_id == Val(requests[caller].flow_id)
              IN  /\ \E a \in C35_ReturnArgs : end_agent_flow(flow_id, a)
                  /\ flow_id \notin DOMAIN active_flows'
                  /\ \E k \in 1..Len(agent_flows') : agent_flows'[k].id = flow_id
                  /\ flow_id \in DOMAIN active_flows =>
                        /\ Last(agent_flows').id = flow_id
                        /\ Last(agent_flows').status \in {"completed", "error"}
        /\ (requests'[caller] # requests[caller] /\ ~C35_Returns(caller)) =>
              /\ agent_flows' = agent_flows
              /\ monitor_flows' = monitor_flows
              /\ traces' = traces
              /\ DOMAIN active_flows \subseteq DOMAIN active_flows'

C35_EveryPathEnds == [][C35_CallStep]_vars

(* One call has returned from the timeout clause and the other from the      *)
(* initialization failure; both flows are completed with status error and    *)
(* no flow is active.                                                        *)
C35_Witness ==
    /\ \A caller \in Callers : requests[caller].pc = "done"
    /\ requests[1].flow_id # requests[2].flow_id
    /\ DOMAIN active_flows = {}
    /\ Len(agent_flows) = 2
    /\ agent_flows[1].error = Some(ErrTimedOut)
    /\ agent_flows[2].error = Some(ErrBoom)

(* C36: in every state every record of the completed agent sequence has kind *)
(* agent_analysis, every record of the completed monitor sequence has kind   *)
(* background_monitor, and every archived trace has the kind of the          *)
(* completed flow it refers to.                                              *)
C36_TraceKind(flows) ==
    \A k \in 1..Len(flows), j \in 1..Len(traces) :
        (traces[j].flow_id = flows[k].id /\ traces[j].trace_id = flows[k].trace_id) =>
            traces[j].type = flows[k].type

C36_KindConsistent ==
    /\ \A k \in 1..Len(agent_flows) : agent_flows[k].type = "agent_analysis"
    /\ \A k \in 1..Len(monitor_flows) : monitor_flows[k].type = "background_monitor"
    /\ C36_TraceKind(agent_flows)
    /\ C36_TraceKind(monitor_flows)

(* C37: an end_* call on an active flow without a tokens argument records    *)
(* tokens {input 0, output 0}, and one without a tool-call argument records  *)
(* an empty tool-call list and archives a trace without tool spans, whatever *)
(* update_tokens and add_tool_call accumulated while the flow was running.   *)
C37_NoToolSpans(spans) ==
    /\ Len(spans) = 4
    /\ \A k \in 1..Len(spans) : spans[k].name # "tool_execution"

C37_EndStep ==
    \A flow_id \in DOMAIN active_flows, a \in EndArgs :
        (flow_id \notin DOMAIN active_flows'
         /\ (a.tokens = None \/ a.tools = None)
         /\ (end_agent_flow(flow_id, a) \/ end_monitor_flow(flow_id, a))) =>
            /\ Val(ret') \in {Last(agent_flows' \o monitor_flows'), Last(monitor_flows' \o agent_flows')}
            /\ a.tokens = None => Val(ret').tokens = [input |-> 0, output |-> 0]
            /\ a.tools = None =>
                  /\ Val(ret').tools = <<>>
                  /\ traces' # <<>>
                  /\ Last(traces').flow_id = flow_id
                  /\ C37_NoToolSpans(Last(traces').spans)

C37_DefaultsReplace == [][C37_EndStep]_vars

(* An end without tokens and tools has just returned the completed flow,     *)
(* with zero tokens and no tool calls, and archived its trace of four spans. *)
C37_Witness ==
    /\ ret # None
    /\ agent_flows # <<>>
    /\ Val(ret) = Last(agent_flows)
    /\ Last(agent_flows).status = "completed"
    /\ Last(agent_flows).tokens = [input |-> 0, output |-> 0]
    /\ Last(agent_flows).tools = <<>>
    /\ traces # <<>>
    /\ Len(Last(traces).spans) = 4
    /\ Last(traces).duration > 0

(* C38: in every archived trace every span's duration is its end_time minus  *)
(* its start_time in milliseconds, the completion span included.             *)
C38_DurationIsInterval(span) ==
    Ms(span.duration) = FromIso(span.end_time) - FromIso(span.start_time)

C38_SpanDurations ==
    \A j \in 1..Len(traces) :
        \A k \in 1..Len(traces[j].spans) : C38_DurationIsInterval(traces[j].spans[k])

====
